---- MODULE Spec2Model ----
(***************************************************************************)
(* Receivables management application (App.tsx, pages/Operations.tsx).     *)
(* The state is the React state of App (clients, operations, receipts,     *)
(* users, isLoading), the rows of the backing store, and the asynchronous  *)
(* handlers in flight, each with the operations/receipts it captured when  *)
(* it was invoked and the store request it is waiting for.                 *)
(*                                                                         *)
(* Money is counted in hundredths of a cent, so that nominal * taxa / 100  *)
(* is exact for a whole-percent taxa.  Dates are (month, day) pairs of a   *)
(* calendar of non-leap years, months numbered from 1 onwards.             *)
(***************************************************************************)
EXTENDS Integers, Sequences, FiniteSets, TLC

\* ---------------------------------------------------------------- bounds
MaxOpId == 3
MaxReceiptId == 2
MaxInstallments == 3
MaxInFlight == 2
MaxCents == 150
MaxCount == 60
MaxDashOps == 2
MaxDashReceipts == 2
MaxRenders == 2

\* ------------------------------------------------------------- constants
PercentBase == 100
CentUnits == 100
REMINDER_WINDOW_DAYS == 7
\* min and max of the installments input
InstallmentsMin == 2
InstallmentsMax == 60

\* -------------------------------------------------------------- calendar
DaysIn(m) ==
  LET k == ((m - 1) % 12) + 1
  IN  IF k = 2 THEN 28 ELSE IF k \in {4, 6, 9, 11} THEN 30 ELSE 31

RECURSIVE DaysBefore(_)
DaysBefore(m) == IF m <= 1 THEN 0 ELSE DaysBefore(m - 1) + DaysIn(m - 1)

Ord(date) == DaysBefore(date.m) + date.d

MkDate(m, d) == [m |-> m, d |-> d]

Min(a, b) == IF a < b THEN a ELSE b

\* date-fns addMonths: same day of the target month, clamped to its length
addMonths(date, i) == MkDate(date.m + i, Min(date.d, DaysIn(date.m + i)))

PrevDay(date) ==
  IF date.d > 1 THEN MkDate(date.m, date.d - 1)
  ELSE MkDate(date.m - 1, DaysIn(date.m - 1))

\* addMonths(parseISO(s), i).toISOString().split('T')[0]: the local midnight
\* printed in UTC is the previous calendar day when the browser's time zone
\* is ahead of UTC.
InstallmentDueDate(date, i, east) ==
  IF east THEN PrevDay(addMonths(date, i)) ELSE addMonths(date, i)

Today == MkDate(2, 10)

\* isPast(dueDate) && !isToday(dueDate)
IsOverdue(dueDate) == Ord(dueDate) < Ord(Today)

\* ---------------------------------------------------------------- inputs
DueDates == {MkDate(1, 31), Today, MkDate(2, 12)}
NewDueDates == {MkDate(1, 31), MkDate(2, 12)}
NoDate == MkDate(0, 0)
Nominals == {500 * CentUnits}
\* the form proposes the client's monthly rate: <<clientId, taxa>>
ClientTaxas == {<<1, 10>>, <<2, 0>>}
\* settlement receipts: <<valor_principal_pago, valor_juros_pago>>
Payments == {<<300 * CentUnits, 0>>, <<500 * CentUnits, 50 * CentUnits>>}
\* date-extension receipts: <<valor_principal_pago, valor_juros_pago>>
ExtensionPayments == {<<0, 50 * CentUnits>>}
Statuses == {"aberto", "pago", "atrasado"}
ClientIds == {1, 2}
UserIds == {1, 2}
Slots == 1 .. MaxInFlight

VARIABLES
  dbClients,      \* store: set of client ids
  dbOperations,   \* store: operation id -> row
  dbReceipts,     \* store: receipt id -> row
  dbUsers,        \* store: set of user ids
  nextOpId,       \* store: next generated operation id
  nextReceiptId,  \* store: next generated receipt id
  clients,        \* App state: sequence of client ids
  operations,     \* App state: sequence of Operation
  receipts,       \* App state: sequence of Recebimento
  users,          \* App state: sequence of user ids
  isLoading,      \* App state
  operationToUpdateStatus, \* OperationsPage state: pending confirmation
  handlers,       \* slot -> asynchronous handler in flight
  concurrency,    \* how many handlers the user interface lets overlap
  lastNote,       \* the notification emitted in this step
  expandIn,       \* installment expansion on its own: the request
  expandOut,      \* installment expansion on its own: the values produced
  dashProps,      \* Dashboard: the props of the current render
  snapshot,       \* Dashboard: stats, as last computed
  currentUser,    \* App state: id of the authenticated user, 0 for null
  dismissedReminderIds \* App state: sequence of reminder ids

vars == <<dbClients, dbOperations, dbReceipts, dbUsers, nextOpId, nextReceiptId,
          clients, operations, receipts, users, isLoading,
          operationToUpdateStatus, handlers, concurrency, lastNote,
          expandIn, expandOut, dashProps, snapshot, currentUser,
          dismissedReminderIds>>

storeVars == <<dbClients, dbOperations, dbReceipts, dbUsers, nextOpId, nextReceiptId>>
viewVars == <<clients, operations, receipts, users>>
envVars == <<concurrency, expandIn, expandOut, dashProps, snapshot, currentUser,
            dismissedReminderIds>>

\* ------------------------------------------------------ sequence helpers
RECURSIVE SeqSum(_, _)
SeqSum(s, field) ==
  IF s = <<>> THEN 0 ELSE Head(s)[field] + SeqSum(Tail(s), field)

HasId(s, id) == \E i \in DOMAIN s : s[i].id = id

\* Array.prototype.find: the first element with that id
FindById(s, id) == s[CHOOSE i \in DOMAIN s :
                        s[i].id = id /\ \A j \in 1 .. (i - 1) : s[j].id # id]

IdsOf(s) == {s[i].id : i \in DOMAIN s}

RECURSIVE SortDesc(_)
SortDesc(rows) ==
  IF rows = {} THEN <<>>
  ELSE LET top == CHOOSE r \in rows : \A q \in rows : q.id <= r.id
       IN  <<top>> \o SortDesc(rows \ {top})

RECURSIVE SortDescInts(_)
SortDescInts(S) ==
  IF S = {} THEN <<>>
  ELSE LET top == CHOOSE r \in S : \A q \in S : q <= r
       IN  <<top>> \o SortDescInts(S \ {top})

\* select('*') with no order: the rows as the store keeps them, by ascending id
RECURSIVE StoreOrderInts(_)
StoreOrderInts(S) ==
  IF S = {} THEN <<>>
  ELSE LET low == CHOOSE r \in S : \A q \in S : r <= q
       IN  <<low>> \o StoreOrderInts(S \ {low})

Without(f, ids) == [i \in (DOMAIN f) \ ids |-> f[i]]

\* ------------------------------------------------------ accrual / rounding
\* Nearest whole number to num / den; an exact half goes up or down with the
\* binary representation of the quotient (0.005 -> "0.01", 0.015 -> "0.01").
RoundDiv(num, den, tieUp) ==
  LET fl == num \div den
      rem == num % den
  IN  IF 2 * rem > den \/ (2 * rem = den /\ tieUp) THEN fl + 1 ELSE fl

\* parseFloat((num / den).toFixed(2)), in money units
toFixed2(num, den, tieUp) == CentUnits * RoundDiv(num, den * CentUnits, tieUp)

nominalPerInstallment(totalNominal, count, tieUp) ==
  toFixed2(totalNominal, count, tieUp)

diff(totalNominal, count, tieUp) ==
  LET totalCalculated == nominalPerInstallment(totalNominal, count, tieUp) * count
  IN  toFixed2(totalNominal - totalCalculated, 1, tieUp)

InstallmentValueNoResidual(totalNominal, count, i, tieUp) ==
  nominalPerInstallment(totalNominal, count, tieUp)

\* value of installment i (0-based): the last one takes the rounding difference
InstallmentValue(totalNominal, count, i, tieUp) ==
  IF i = count - 1
  THEN nominalPerInstallment(totalNominal, count, tieUp) + diff(totalNominal, count, tieUp)
  ELSE nominalPerInstallment(totalNominal, count, tieUp)

\* value + value * (taxa / 100)
NetValue(value, taxa) == value + (value * taxa) \div PercentBase

ClientRef(clientId) == IF clientId > 0 THEN clientId ELSE 0

IsBulkAnyParcelamento(opData) == opData.type = "parcelamento"

\* opData.type === 'parcelamento' && opData.installments && opData.installments > 1
IsBulk(opData) == opData.type = "parcelamento" /\ opData.installments > 1

BulkPayloadSharedNet(opData, i, east, tieUp) ==
  LET value == InstallmentValue(opData.nominalValue, opData.installments, i, tieUp)
  IN  [type |-> "parcelamento",
       title_number |-> <<opData.titleNumber, i + 1, opData.installments>>,
       nominal_value |-> value,
       net_value |-> NetValue(opData.nominalValue, opData.taxa),
       issue_date |-> opData.issueDate,
       due_date |-> InstallmentDueDate(opData.dueDate, i, east),
       taxa |-> opData.taxa,
       status |-> "aberto",
       client_id |-> ClientRef(opData.clientId)]

BulkPayload(opData, i, east, tieUp) ==
  LET value == InstallmentValue(opData.nominalValue, opData.installments, i, tieUp)
  IN  [type |-> "parcelamento",
       title_number |-> <<opData.titleNumber, i + 1, opData.installments>>,
       nominal_value |-> value,
       net_value |-> NetValue(value, opData.taxa),
       issue_date |-> opData.issueDate,
       due_date |-> InstallmentDueDate(opData.dueDate, i, east),
       taxa |-> opData.taxa,
       status |-> "aberto",
       client_id |-> ClientRef(opData.clientId)]

SinglePayload(opData) ==
  [type |-> opData.type,
   title_number |-> <<opData.titleNumber>>,
   nominal_value |-> opData.nominalValue,
   net_value |-> NetValue(opData.nominalValue, opData.taxa),
   issue_date |-> opData.issueDate,
   due_date |-> opData.dueDate,
   taxa |-> opData.taxa,
   status |-> "aberto",
   client_id |-> ClientRef(opData.clientId)]

\* the rows handleAddOperation sends to the store, in order
Payloads(opData, east, tieUp) ==
  IF IsBulk(opData)
  THEN [k \in 1 .. opData.installments |-> BulkPayload(opData, k - 1, east, tieUp)]
  ELSE <<SinglePayload(opData)>>

\* store row -> Operation (snake_case columns to camelCase fields)
MapOperation(id, row) ==
  [id |-> id,
   clientId |-> row.client_id,
   type |-> row.type,
   titleNumber |-> row.title_number,
   nominalValue |-> row.nominal_value,
   netValue |-> row.net_value,
   issueDate |-> row.issue_date,
   dueDate |-> row.due_date,
   taxa |-> row.taxa,
   status |-> row.status]

MapReceipt(id, row) ==
  [id |-> id,
   operationId |-> row.operation_id,
   valor_principal_pago |-> row.valor_principal_pago,
   valor_juros_pago |-> row.valor_juros_pago]

NoExpansion == [totalNominal |-> 0, count |-> 0, tieUp |-> FALSE]

\* ------------------------------------------------------------- handlers
NoUpdate == [operationId |-> 0, status |-> "none", dueDate |-> NoDate]
NoRequest == [id |-> 0, status |-> "none"]
\* currentUser is null
NoUser == 0

Idle == [kind |-> "idle", pc |-> "idle", arg |-> <<>>, ops |-> <<>>,
         rcpts |-> <<>>, upd |-> NoUpdate, err |-> FALSE]

Busy(s) == handlers[s].kind # "idle"
InFlight == {s \in Slots : Busy(s)}

\* a handler can be invoked: the pages are rendered, no dialog is open, and
\* the interface lets another request overlap the ones in flight
CanInvoke(s) ==
  /\ currentUser # NoUser
  /\ ~isLoading
  /\ operationToUpdateStatus = NoRequest
  /\ ~Busy(s)
  /\ \A t \in Slots : t < s => Busy(t)
  /\ Cardinality(InFlight) < concurrency

Invoke(s, kind, pc, arg, upd) ==
  handlers' = [handlers EXCEPT ![s] =
                 [kind |-> kind, pc |-> pc, arg |-> arg, ops |-> operations,
                  rcpts |-> receipts, upd |-> upd, err |-> FALSE]]

Goto(s, pc) == handlers' = [handlers EXCEPT ![s].pc = pc]
Finish(s, failed) ==
  handlers' = [handlers EXCEPT ![s].pc = "done", ![s].err = @ \/ failed]

\* ----------------------------------------------------------- fetchData
\* Auto-update overdue status logic (local state only)
ReclassifyInclusive(op) ==
  IF op.status = "aberto" /\ Ord(op.dueDate) <= Ord(Today)
  THEN [op EXCEPT !.status = "atrasado"] ELSE op

Reclassify(op) ==
  IF op.status = "aberto" /\ IsOverdue(op.dueDate)
  THEN [op EXCEPT !.status = "atrasado"] ELSE op

LoadedOperations ==
  LET mappedOps == SortDesc({MapOperation(id, dbOperations[id]) : id \in DOMAIN dbOperations})
  IN  [i \in DOMAIN mappedOps |-> Reclassify(mappedOps[i])]

LoadedReceipts ==
  SortDesc({MapReceipt(id, dbReceipts[id]) : id \in DOMAIN dbReceipts})

\* the application is (re)loaded and the same user logs in again: fresh React
\* state, fetchData runs on mount
Mount ==
  /\ ~isLoading
  /\ InFlight = {}
  /\ operationToUpdateStatus = NoRequest
  /\ clients' = <<>> /\ operations' = <<>> /\ receipts' = <<>> /\ users' = <<>>
  /\ isLoading' = TRUE
  /\ handlers' = [handlers EXCEPT ![1] = [Idle EXCEPT !.kind = "fetchData", !.pc = "users"]]
  /\ lastNote' = "none"
  /\ UNCHANGED <<storeVars, operationToUpdateStatus, envVars>>

FetchFailed(s) ==
  /\ isLoading' = FALSE
  /\ Finish(s, TRUE)
  /\ lastNote' = "Erro ao carregar dados do sistema."

FetchUsers(s, ok) ==
  /\ handlers[s].kind = "fetchData" /\ handlers[s].pc = "users"
  /\ IF ok
     THEN /\ users' = StoreOrderInts(dbUsers)
          /\ Goto(s, "clients")
          /\ lastNote' = "none"
          /\ UNCHANGED isLoading
     ELSE FetchFailed(s) /\ UNCHANGED users
  /\ UNCHANGED <<storeVars, clients, operations, receipts,
                 operationToUpdateStatus, envVars>>

FetchClients(s, ok) ==
  /\ handlers[s].kind = "fetchData" /\ handlers[s].pc = "clients"
  /\ IF ok
     THEN /\ clients' = SortDescInts(dbClients)
          /\ Goto(s, "operations")
          /\ lastNote' = "none"
          /\ UNCHANGED isLoading
     ELSE FetchFailed(s) /\ UNCHANGED clients
  /\ UNCHANGED <<storeVars, users, operations, receipts,
                 operationToUpdateStatus, envVars>>

FetchOperations(s, ok) ==
  /\ handlers[s].kind = "fetchData" /\ handlers[s].pc = "operations"
  /\ IF ok
     THEN /\ operations' = LoadedOperations
          /\ Goto(s, "receipts")
          /\ lastNote' = "none"
          /\ UNCHANGED isLoading
     ELSE FetchFailed(s) /\ UNCHANGED operations
  /\ UNCHANGED <<storeVars, users, clients, receipts,
                 operationToUpdateStatus, envVars>>

FetchReceipts(s, ok) ==
  /\ handlers[s].kind = "fetchData" /\ handlers[s].pc = "receipts"
  /\ IF ok
     THEN /\ receipts' = LoadedReceipts
          /\ isLoading' = FALSE
          /\ Finish(s, FALSE)
          /\ lastNote' = "none"
     ELSE FetchFailed(s) /\ UNCHANGED receipts
  /\ UNCHANGED <<storeVars, users, clients, operations,
                 operationToUpdateStatus, envVars>>

\* the handler's promise settles
Return(s) ==
  /\ handlers[s].pc = "done"
  /\ handlers' = [handlers EXCEPT ![s] = Idle]
  /\ lastNote' = "none"
  /\ UNCHANGED <<storeVars, viewVars, isLoading, operationToUpdateStatus,
                 envVars>>

\* --------------------------------------------------- handleAddOperation
\* what the operation form submits: installments is 1 unless the type is
\* 'parcelamento'
FormInstallments ==
  {<<"duplicata", 1>>} \cup {<<"parcelamento", n>> : n \in 2 .. MaxInstallments}

OpDatas ==
  {[clientId |-> ct[1], type |-> ti[1], titleNumber |-> "T", nominalValue |-> nv,
    issueDate |-> Today, dueDate |-> dd, taxa |-> ct[2], installments |-> ti[2]] :
     ct \in ClientTaxas, ti \in FormInstallments, nv \in Nominals, dd \in DueDates}

\* for a 'parcelamento' handleSubmit passes on parseInt(formData.installments)
\* || 1 whatever the number: an emptied field gives 1, and nothing in
\* handleSubmit or handleAddOperation looks at the min and max of the input
SubmittedInstallments ==
  {<<"duplicata", 1>>}
  \cup {<<"parcelamento", n>> : n \in (1 .. MaxInstallments) \cup {InstallmentsMax + 1}}

SubmittedOpDatas ==
  {[clientId |-> 1, type |-> ti[1], titleNumber |-> "T", nominalValue |-> nv,
    issueDate |-> Today, dueDate |-> MkDate(1, 31), taxa |-> 10,
    installments |-> ti[2]] : ti \in SubmittedInstallments, nv \in Nominals}

StartAddOperation(s, opData, east, tieUp) ==
  /\ CanInvoke(s)
  /\ nextOpId <= MaxOpId
  /\ Invoke(s, "addOperation", "insert",
            [opData |-> opData, payloads |-> Payloads(opData, east, tieUp),
             bulk |-> IsBulk(opData)],
            NoUpdate)
  /\ lastNote' = "none"
  /\ UNCHANGED <<storeVars, viewVars, isLoading, operationToUpdateStatus,
                 envVars>>

InsertedRowsFirstOnly(payloads) == [id \in {nextOpId} |-> payloads[1]]

\* the store accepts the rows (all of them, or none) and generates the ids
InsertedRows(payloads) ==
  [id \in nextOpId .. (nextOpId + Len(payloads) - 1) |-> payloads[id - nextOpId + 1]]

AddOperationAck(s, ok) ==
  LET h == handlers[s]
      payloads == h.arg.payloads
      rows == InsertedRows(payloads)
      newOps == SortDesc({MapOperation(id, rows[id]) : id \in DOMAIN rows})
  IN  /\ h.kind = "addOperation" /\ h.pc = "insert"
      /\ ok => /\ nextOpId + Len(payloads) - 1 <= MaxOpId
               /\ \A k \in DOMAIN payloads :
                    payloads[k].client_id = 0 \/ payloads[k].client_id \in dbClients
      /\ IF ok
         THEN /\ dbOperations' = [id \in DOMAIN dbOperations \cup DOMAIN rows |->
                                    IF id \in DOMAIN rows THEN rows[id] ELSE dbOperations[id]]
              /\ nextOpId' = nextOpId + Len(payloads)
              /\ operations' = newOps \o operations
              /\ lastNote' = IF h.arg.bulk THEN "Parcelamento registrado com sucesso!"
                                           ELSE "Operacao registrada com sucesso!"
         ELSE /\ UNCHANGED <<dbOperations, nextOpId, operations>>
              /\ lastNote' = IF h.arg.bulk THEN "Erro ao registrar parcelamento"
                                           ELSE "Erro ao registrar operacao"
      /\ Finish(s, ~ok)
      /\ UNCHANGED <<dbClients, dbReceipts, dbUsers, nextReceiptId, clients, receipts,
                     users, isLoading, operationToUpdateStatus, envVars>>

\* ------------------------------------------------ handleDeleteOperation
StartDeleteOperation(s, operationId) ==
  /\ CanInvoke(s)
  /\ operationId \in IdsOf(operations)
  /\ Invoke(s, "deleteOperation", "delete", [operationId |-> operationId], NoUpdate)
  /\ lastNote' = "Operacao excluida com sucesso."
  /\ UNCHANGED <<storeVars, viewVars, isLoading, operationToUpdateStatus,
                 envVars>>

ReceiptIdsOfOps(opIds) == {r \in DOMAIN dbReceipts : dbReceipts[r].operation_id \in opIds}

ReceiptsWithoutKept(rcpts, operationId) == rcpts

\* prev.filter(r => r.operationId !== operationId)
ReceiptsWithout(rcpts, operationId) ==
  SelectSeq(rcpts, LAMBDA r : r.operationId # operationId)

DeleteOperationAck(s, ok) ==
  LET h == handlers[s]
      operationId == h.arg.operationId
  IN  /\ h.kind = "deleteOperation" /\ h.pc = "delete"
      /\ IF ok
         THEN /\ dbOperations' = Without(dbOperations, {operationId})
              /\ dbReceipts' = Without(dbReceipts, ReceiptIdsOfOps({operationId}))
              /\ receipts' = ReceiptsWithout(receipts, operationId)
              /\ operations' = SelectSeq(operations, LAMBDA op : op.id # operationId)
              /\ lastNote' = "none"
         ELSE /\ UNCHANGED <<dbOperations, dbReceipts, receipts, operations>>
              /\ lastNote' = "Erro ao excluir operacao"
      /\ Finish(s, ~ok)
      /\ UNCHANGED <<dbClients, dbUsers, nextOpId, nextReceiptId, clients, users,
                     isLoading, operationToUpdateStatus, envVars>>

\* --------------------------------------------------- handleDeleteClient
StartDeleteClient(s, clientId) ==
  /\ CanInvoke(s)
  /\ \E i \in DOMAIN clients : clients[i] = clientId
  /\ Invoke(s, "deleteClient", "delete", [clientId |-> clientId], NoUpdate)
  /\ lastNote' = "none"
  /\ UNCHANGED <<storeVars, viewVars, isLoading, operationToUpdateStatus,
                 envVars>>

opsToDeleteNone(ops, clientId) == {}

\* operations.filter(op => op.clientId === clientId).map(op => op.id)
opsToDelete(ops, clientId) ==
  {ops[i].id : i \in {j \in DOMAIN ops : ops[j].clientId = clientId}}

DeleteClientAck(s, ok) ==
  LET h == handlers[s]
      clientId == h.arg.clientId
      dbOps == {id \in DOMAIN dbOperations : dbOperations[id].client_id = clientId}
  IN  /\ h.kind = "deleteClient" /\ h.pc = "delete"
      /\ IF ok
         THEN /\ dbClients' = dbClients \ {clientId}
              /\ dbOperations' = Without(dbOperations, dbOps)
              /\ dbReceipts' = Without(dbReceipts, ReceiptIdsOfOps(dbOps))
              /\ receipts' = SelectSeq(receipts,
                                        LAMBDA r : r.operationId \notin opsToDelete(h.ops, clientId))
              /\ operations' = SelectSeq(operations, LAMBDA op : op.clientId # clientId)
              /\ clients' = SelectSeq(clients, LAMBDA c : c # clientId)
              /\ lastNote' = "none"
         ELSE /\ UNCHANGED <<dbClients, dbOperations, dbReceipts, receipts, operations, clients>>
              /\ lastNote' = "Erro ao excluir cliente"
      /\ Finish(s, ~ok)
      /\ UNCHANGED <<dbUsers, nextOpId, nextReceiptId, users, isLoading,
                     operationToUpdateStatus, envVars>>

\* ------------------------------------------ handleUpdateOperationStatus
SetStatusSettlingNet(ops, operationId, status) ==
  [i \in DOMAIN ops |->
     IF ops[i].id = operationId
     THEN [ops[i] EXCEPT !.status = status, !.netValue = ops[i].nominalValue]
     ELSE ops[i]]

SetStatusResettingDate(ops, operationId, status) ==
  [i \in DOMAIN ops |->
     IF ops[i].id = operationId
     THEN [ops[i] EXCEPT !.status = status, !.dueDate = ops[i].issueDate]
     ELSE ops[i]]

\* prev.map(op => op.id === operationId ? { ...op, status } : op)
SetStatus(ops, operationId, status) ==
  [i \in DOMAIN ops |->
     IF ops[i].id = operationId THEN [ops[i] EXCEPT !.status = status] ELSE ops[i]]

\* the store answers the status update issued by handleUpdateOperationStatus,
\* called from the page, from handleAddReceipt or from handleDeleteReceipt
UpdateStatusAck(s, ok) ==
  LET h == handlers[s]
      operationId == h.upd.operationId
  IN  /\ h.pc = "status"
      /\ IF ok
         THEN /\ dbOperations' =
                   IF operationId \in DOMAIN dbOperations
                   THEN [dbOperations EXCEPT ![operationId].status = h.upd.status]
                   ELSE dbOperations
              /\ operations' = SetStatus(operations, operationId, h.upd.status)
              /\ lastNote' = "none"
         ELSE /\ UNCHANGED <<dbOperations, operations>>
              /\ lastNote' = "Erro ao atualizar status"
      /\ Finish(s, ~ok)
      /\ UNCHANGED <<dbClients, dbReceipts, dbUsers, nextOpId, nextReceiptId, clients,
                     receipts, users, isLoading, operationToUpdateStatus,
                     envVars>>

\* the same request in two steps, for requests that overlap on one row: the
\* store carries out (or refuses) the update ...
UpdateStatusStored(s, ok) ==
  LET h == handlers[s]
      operationId == h.upd.operationId
  IN  /\ h.pc = "status"
      /\ dbOperations' =
           IF ok /\ operationId \in DOMAIN dbOperations
           THEN [dbOperations EXCEPT ![operationId].status = h.upd.status]
           ELSE dbOperations
      /\ handlers' = [handlers EXCEPT ![s].pc = "answer", ![s].err = ~ok]
      /\ lastNote' = "none"
      /\ UNCHANGED <<dbClients, dbReceipts, dbUsers, nextOpId, nextReceiptId, viewVars,
                     isLoading, operationToUpdateStatus, envVars>>

\* ... and its answer reaches the handler, after or before the answers to the
\* requests that the store carried out before it
UpdateStatusAnswered(s) ==
  LET h == handlers[s]
  IN  /\ h.pc = "answer"
      /\ IF h.err
         THEN /\ UNCHANGED operations
              /\ lastNote' = "Erro ao atualizar status"
         ELSE /\ operations' = SetStatus(operations, h.upd.operationId, h.upd.status)
              /\ lastNote' = "none"
      /\ Goto(s, "done")
      /\ UNCHANGED <<storeVars, clients, receipts, users, isLoading,
                     operationToUpdateStatus, envVars>>

\* ------------------------------------- OperationsPage: status selector
\* the status selector calling onUpdateOperationStatus for every status
StatusChangeRequestDirect(s, operationId, status) ==
  /\ ~isLoading
  /\ operationToUpdateStatus = NoRequest
  /\ operationId \in IdsOf(operations)
  /\ IF FindById(operations, operationId).status = status
     THEN UNCHANGED <<handlers, operationToUpdateStatus>>
     ELSE /\ CanInvoke(s)
          /\ Invoke(s, "updateStatus", "status", [operationId |-> operationId],
                    [operationId |-> operationId, status |-> status, dueDate |-> NoDate])
          /\ UNCHANGED operationToUpdateStatus
  /\ lastNote' = "none"
  /\ UNCHANGED <<storeVars, viewVars, isLoading, envVars>>

\* handleStatusChangeRequest
StatusChangeRequest(s, operationId, status) ==
  /\ ~isLoading
  /\ operationToUpdateStatus = NoRequest
  /\ operationId \in IdsOf(operations)
  /\ IF FindById(operations, operationId).status = status
     THEN UNCHANGED <<handlers, operationToUpdateStatus>>
     ELSE IF status = "pago"
          THEN /\ operationToUpdateStatus' = [id |-> operationId, status |-> "pago"]
               /\ UNCHANGED handlers
          ELSE /\ CanInvoke(s)
               /\ Invoke(s, "updateStatus", "status", [operationId |-> operationId],
                         [operationId |-> operationId, status |-> status, dueDate |-> NoDate])
               /\ UNCHANGED operationToUpdateStatus
  /\ lastNote' = "none"
  /\ UNCHANGED <<storeVars, viewVars, isLoading, envVars>>

\* handleConfirmStatusUpdate
ConfirmStatusUpdate(s) ==
  /\ operationToUpdateStatus # NoRequest
  /\ ~Busy(s)
  /\ \A t \in Slots : t < s => Busy(t)
  /\ Cardinality(InFlight) < concurrency
  /\ Invoke(s, "updateStatus", "status", [operationId |-> operationToUpdateStatus.id],
            [operationId |-> operationToUpdateStatus.id,
             status |-> operationToUpdateStatus.status, dueDate |-> NoDate])
  /\ operationToUpdateStatus' = NoRequest
  /\ lastNote' = "Status da operacao atualizado."
  /\ UNCHANGED <<storeVars, viewVars, isLoading, envVars>>

\* ConfirmModal onClose
CancelStatusUpdate ==
  /\ operationToUpdateStatus # NoRequest
  /\ operationToUpdateStatus' = NoRequest
  /\ lastNote' = "none"
  /\ UNCHANGED <<storeVars, viewVars, isLoading, handlers, envVars>>

\* ----------------------------------------------------- handleAddReceipt
ReceiptsOf(rcpts, operationId) == SelectSeq(rcpts, LAMBDA r : r.operationId = operationId)

PrincipalPaid(rcpts, operationId) == SeqSum(ReceiptsOf(rcpts, operationId), "valor_principal_pago")

\* receipts.filter(..).reduce(..) + receiptData.valor_principal_pago

TotalWithNew(rcpts, receiptData) ==
  PrincipalPaid(rcpts, receiptData.operationId) + receiptData.valor_principal_pago

ClosesOperationOnNet(totalPrincipalPaid, operation) == totalPrincipalPaid >= operation.netValue

\* totalPrincipalPaid >= operation.nominalValue
ClosesOperation(totalPrincipalPaid, operation) == totalPrincipalPaid >= operation.nominalValue

ReceiptDatas ==
  {[operationId |-> o, valor_principal_pago |-> p[1], valor_juros_pago |-> p[2],
    newDueDate |-> NoDate] : o \in 1 .. MaxOpId, p \in Payments}
  \cup
  {[operationId |-> o, valor_principal_pago |-> p[1], valor_juros_pago |-> p[2],
    newDueDate |-> d] : o \in 1 .. MaxOpId, p \in ExtensionPayments, d \in NewDueDates}

\* handleAddReceipt is called, whatever the operation the receipt names
CallAddReceipt(s, receiptData) ==
  /\ CanInvoke(s)
  /\ nextReceiptId <= MaxReceiptId
  /\ Invoke(s, "addReceipt", "insert", receiptData, NoUpdate)
  /\ lastNote' = "none"
  /\ UNCHANGED <<storeVars, viewVars, isLoading, operationToUpdateStatus,
                 envVars>>

\* handleAddReceipt is called for one of the operations of the view
StartAddReceipt(s, receiptData) ==
  /\ receiptData.operationId \in IdsOf(operations)
  /\ CallAddReceipt(s, receiptData)

\* what handleAddReceipt does once the receipt is stored: the operation
\* update it issues next, or NoUpdate
AfterInsertAlwaysCheck(h) ==
  LET receiptData == h.arg
  IN  IF ~HasId(h.ops, receiptData.operationId) THEN NoUpdate
      ELSE LET operation == FindById(h.ops, receiptData.operationId)
           IN  IF ClosesOperation(TotalWithNew(h.rcpts, receiptData), operation)
               THEN [operationId |-> operation.id, status |-> "pago", dueDate |-> NoDate]
               ELSE IF receiptData.newDueDate # NoDate
                    THEN [operationId |-> operation.id, status |-> "aberto",
                          dueDate |-> receiptData.newDueDate]
                    ELSE NoUpdate

AfterInsertMissingCloses(h) ==
  LET receiptData == h.arg
  IN  IF ~HasId(h.ops, receiptData.operationId)
      THEN [operationId |-> receiptData.operationId, status |-> "pago", dueDate |-> NoDate]
      ELSE LET operation == FindById(h.ops, receiptData.operationId)
           IN  IF receiptData.newDueDate # NoDate
               THEN [operationId |-> operation.id, status |-> "aberto",
                     dueDate |-> receiptData.newDueDate]
               ELSE IF ClosesOperation(TotalWithNew(h.rcpts, receiptData), operation)
                    THEN [operationId |-> operation.id, status |-> "pago", dueDate |-> NoDate]
                    ELSE NoUpdate

AfterInsert(h) ==
  LET receiptData == h.arg
  IN  IF ~HasId(h.ops, receiptData.operationId) THEN NoUpdate
      ELSE LET operation == FindById(h.ops, receiptData.operationId)
           IN  IF receiptData.newDueDate # NoDate
               THEN [operationId |-> operation.id, status |-> "aberto",
                     dueDate |-> receiptData.newDueDate]
               ELSE IF ClosesOperation(TotalWithNew(h.rcpts, receiptData), operation)
                    THEN [operationId |-> operation.id, status |-> "pago", dueDate |-> NoDate]
                    ELSE NoUpdate

NextPc(upd) ==
  IF upd = NoUpdate THEN "done" ELSE IF upd.dueDate # NoDate THEN "extend" ELSE "status"

\* the receipt insert without `if (error) throw error`
AddReceiptAckNoCheck(s, ok) ==
  LET h == handlers[s]
      receiptData == h.arg
      row == [operation_id |-> receiptData.operationId,
              valor_principal_pago |-> receiptData.valor_principal_pago,
              valor_juros_pago |-> receiptData.valor_juros_pago]
      newReceipt == MapReceipt(nextReceiptId, row)
      upd == AfterInsert(h)
  IN  /\ h.kind = "addReceipt" /\ h.pc = "insert"
      /\ ok => /\ nextReceiptId <= MaxReceiptId
               /\ receiptData.operationId \in DOMAIN dbOperations
      /\ IF ok
         THEN /\ dbReceipts' = [id \in DOMAIN dbReceipts \cup {nextReceiptId} |->
                                  IF id = nextReceiptId THEN row ELSE dbReceipts[id]]
              /\ nextReceiptId' = nextReceiptId + 1
              /\ receipts' = <<newReceipt>> \o receipts
              /\ lastNote' = "none"
         ELSE /\ UNCHANGED <<dbReceipts, nextReceiptId, receipts>>
              /\ lastNote' = "Erro ao registrar recebimento"
      /\ handlers' = [handlers EXCEPT ![s].pc = NextPc(upd), ![s].upd = upd]
      /\ UNCHANGED <<dbClients, dbOperations, dbUsers, nextOpId, clients, operations,
                     users, isLoading, operationToUpdateStatus, envVars>>

\* the store answers the receipt insert
AddReceiptAck(s, ok) ==
  LET h == handlers[s]
      receiptData == h.arg
      row == [operation_id |-> receiptData.operationId,
              valor_principal_pago |-> receiptData.valor_principal_pago,
              valor_juros_pago |-> receiptData.valor_juros_pago]
      newReceipt == MapReceipt(nextReceiptId, row)
      upd == AfterInsert(h)
  IN  /\ h.kind = "addReceipt" /\ h.pc = "insert"
      /\ ok => /\ nextReceiptId <= MaxReceiptId
               /\ receiptData.operationId \in DOMAIN dbOperations
      /\ IF ok
         THEN /\ dbReceipts' = [id \in DOMAIN dbReceipts \cup {nextReceiptId} |->
                                  IF id = nextReceiptId THEN row ELSE dbReceipts[id]]
              /\ nextReceiptId' = nextReceiptId + 1
              /\ receipts' = <<newReceipt>> \o receipts
              /\ handlers' = [handlers EXCEPT ![s].pc = NextPc(upd), ![s].upd = upd]
              /\ lastNote' = "none"
         ELSE /\ UNCHANGED <<dbReceipts, nextReceiptId, receipts>>
              /\ Finish(s, TRUE)
              /\ lastNote' = "Erro ao registrar recebimento"
      /\ UNCHANGED <<dbClients, dbOperations, dbUsers, nextOpId, clients, operations,
                     users, isLoading, operationToUpdateStatus, envVars>>

SetDueDate(ops, operationId, newDueDate) ==
  [i \in DOMAIN ops |->
     IF ops[i].id = operationId
     THEN [ops[i] EXCEPT !.dueDate = newDueDate, !.status = "aberto"] ELSE ops[i]]

\* the store answers the date extension (due_date + status 'aberto')
ExtendAck(s, ok) ==
  LET h == handlers[s]
      operationId == h.upd.operationId
  IN  /\ h.kind = "addReceipt" /\ h.pc = "extend"
      /\ IF ok
         THEN /\ dbOperations' =
                   IF operationId \in DOMAIN dbOperations
                   THEN [dbOperations EXCEPT ![operationId].due_date = h.upd.dueDate,
                                             ![operationId].status = "aberto"]
                   ELSE dbOperations
              /\ operations' = SetDueDate(operations, operationId, h.upd.dueDate)
              /\ lastNote' = "none"
         ELSE /\ UNCHANGED <<dbOperations, operations>>
              /\ lastNote' = "Erro ao registrar recebimento"
      /\ Finish(s, ~ok)
      /\ UNCHANGED <<dbClients, dbReceipts, dbUsers, nextOpId, nextReceiptId, clients,
                     receipts, users, isLoading, operationToUpdateStatus,
                     envVars>>

\* -------------------------------------------------- handleDeleteReceipt
StartDeleteReceipt(s, receiptId) ==
  /\ CanInvoke(s)
  /\ receiptId \in IdsOf(receipts)
  /\ Invoke(s, "deleteReceipt", "delete",
            [receiptId |-> receiptId, receiptToDelete |-> FindById(receipts, receiptId)],
            NoUpdate)
  /\ lastNote' = "none"
  /\ UNCHANGED <<storeVars, viewVars, isLoading, operationToUpdateStatus,
                 envVars>>

RemainingPrincipalPaid(rcpts, operationId, receiptId) ==
  PrincipalPaid(SelectSeq(rcpts, LAMBDA r : r.id # receiptId), operationId)

ReopenedStatusAlwaysOpen(operation) == "aberto"

\* isOverdue ? 'atrasado' : 'aberto'
ReopenedStatus(operation) == IF IsOverdue(operation.dueDate) THEN "atrasado" ELSE "aberto"

AfterDeleteAnyStatus(h) ==
  LET opId == h.arg.receiptToDelete.operationId
  IN  IF ~HasId(h.ops, opId) THEN NoUpdate
      ELSE LET operation == FindById(h.ops, opId)
           IN  IF RemainingPrincipalPaid(h.rcpts, opId, h.arg.receiptId) < operation.nominalValue
               THEN [operationId |-> operation.id, status |-> ReopenedStatus(operation),
                     dueDate |-> NoDate]
               ELSE NoUpdate

\* what handleDeleteReceipt does once the receipt is deleted: the status
\* update it issues next, or NoUpdate
AfterDelete(h) ==
  LET opId == h.arg.receiptToDelete.operationId
  IN  IF ~HasId(h.ops, opId) THEN NoUpdate
      ELSE LET operation == FindById(h.ops, opId)
           IN  IF operation.status # "pago" THEN NoUpdate
               ELSE IF RemainingPrincipalPaid(h.rcpts, opId, h.arg.receiptId) < operation.nominalValue
                    THEN [operationId |-> operation.id, status |-> ReopenedStatus(operation),
                          dueDate |-> NoDate]
                    ELSE NoUpdate

DeleteReceiptAck(s, ok) ==
  LET h == handlers[s]
      receiptId == h.arg.receiptId
      upd == AfterDelete(h)
  IN  /\ h.kind = "deleteReceipt" /\ h.pc = "delete"
      /\ IF ok
         THEN /\ dbReceipts' = Without(dbReceipts, {receiptId})
              /\ receipts' = SelectSeq(receipts, LAMBDA r : r.id # receiptId)
              /\ handlers' = [handlers EXCEPT ![s].pc = NextPc(upd), ![s].upd = upd]
              /\ lastNote' = "none"
         ELSE /\ UNCHANGED <<dbReceipts, receipts>>
              /\ Finish(s, TRUE)
              /\ lastNote' = "Erro ao excluir recebimento"
      /\ UNCHANGED <<dbClients, dbOperations, dbUsers, nextOpId, nextReceiptId, clients,
                     operations, users, isLoading, operationToUpdateStatus,
                     envVars>>

\* ---------------------------------------------- handleLogin, handleLogout
\* the login page is what App renders while currentUser is null; userId
\* stands for the email and password of that user
StartLogin(s, userId) ==
  /\ currentUser = NoUser
  /\ ~Busy(s)
  /\ \A t \in Slots : t < s => Busy(t)
  /\ Cardinality(InFlight) < concurrency
  /\ Invoke(s, "login", "select", [userId |-> userId, result |-> "pending"], NoUpdate)
  /\ lastNote' = "none"
  /\ UNCHANGED <<storeVars, viewVars, isLoading, operationToUpdateStatus,
                 concurrency, expandIn, expandOut, dashProps, snapshot, currentUser,
                 dismissedReminderIds>>

\* the store answers the select: one row, or an error when no row matches
LoginAck(s, ok) ==
  LET h == handlers[s]
      found == ok /\ h.arg.userId \in dbUsers
  IN  /\ h.kind = "login" /\ h.pc = "select"
      /\ currentUser' = IF found THEN h.arg.userId ELSE currentUser
      /\ handlers' = [handlers EXCEPT ![s].pc = "done", ![s].err = ~ok,
                        ![s].arg.result = IF found THEN "true" ELSE "false"]
      /\ lastNote' = "none"
      /\ UNCHANGED <<storeVars, viewVars, isLoading, operationToUpdateStatus,
                     concurrency, expandIn, expandOut, dashProps, snapshot,
                     dismissedReminderIds>>

Logout ==
  /\ currentUser # NoUser
  /\ currentUser' = NoUser
  /\ lastNote' = "none"
  /\ UNCHANGED <<storeVars, viewVars, isLoading, operationToUpdateStatus, handlers,
                 concurrency, expandIn, expandOut, dashProps, snapshot,
                 dismissedReminderIds>>

\* ----------------------------------------------------- handleDeleteUser
IsCurrentUserNever(current, userId) == FALSE

\* currentUser && currentUser.id === userId
IsCurrentUser(current, userId) == current # NoUser /\ current = userId

\* the users page lists the users of the view; a refused call returns false
\* before any request is made
StartDeleteUser(s, userId) ==
  /\ CanInvoke(s)
  /\ \E i \in DOMAIN users : users[i] = userId
  /\ IF IsCurrentUser(currentUser, userId)
     THEN handlers' = [handlers EXCEPT ![s] =
                         [Idle EXCEPT !.kind = "deleteUser", !.pc = "done",
                                      !.arg = [userId |-> userId, result |-> "false"],
                                      !.ops = operations, !.rcpts = receipts]]
     ELSE Invoke(s, "deleteUser", "delete", [userId |-> userId, result |-> "pending"],
                 NoUpdate)
  /\ lastNote' = "none"
  /\ UNCHANGED <<storeVars, viewVars, isLoading, operationToUpdateStatus,
                 envVars>>

DeleteUserAck(s, ok) ==
  LET h == handlers[s]
      userId == h.arg.userId
  IN  /\ h.kind = "deleteUser" /\ h.pc = "delete"
      /\ IF ok
         THEN /\ dbUsers' = dbUsers \ {userId}
              /\ users' = SelectSeq(users, LAMBDA u : u # userId)
              /\ lastNote' = "none"
         ELSE /\ UNCHANGED <<dbUsers, users>>
              /\ lastNote' = "Erro ao excluir usuario"
      /\ handlers' = [handlers EXCEPT ![s].pc = "done", ![s].err = ~ok,
                        ![s].arg.result = IF ok THEN "true" ELSE "false"]
      /\ UNCHANGED <<dbClients, dbOperations, dbReceipts, nextOpId, nextReceiptId,
                     clients, operations, receipts, isLoading,
                     operationToUpdateStatus, envVars>>

\* ------------------------------------------------------ activeReminders
\* differenceInDays(dueDate, today), both at local midnight
daysDiff(dueDate) == Ord(dueDate) - Ord(Today)

\* the filter without its test of the dismissed ids
RemindedIgnoringDismissed(op, dismissed) ==
  /\ op.status = "aberto"
  /\ daysDiff(op.dueDate) >= 0 /\ daysDiff(op.dueDate) <= REMINDER_WINDOW_DAYS

\* the filter of activeReminders
Reminded(op, dismissed) ==
  /\ ~(op.status # "aberto" \/ \E k \in DOMAIN dismissed : dismissed[k] = op.id)
  /\ daysDiff(op.dueDate) >= 0 /\ daysDiff(op.dueDate) <= REMINDER_WINDOW_DAYS

Reminder(op) ==
  [id |-> op.id, operationId |-> op.id, dueDate |-> op.dueDate,
   nominalValue |-> op.nominalValue]

\* Array.prototype.sort by due date: ascending, equal dates keep their order
RECURSIVE SortByDueDate(_)
SortByDueDate(rs) ==
  IF rs = <<>> THEN <<>>
  ELSE LET sorted == SortByDueDate(SubSeq(rs, 1, Len(rs) - 1))
           last == rs[Len(rs)]
           n == Cardinality({k \in DOMAIN sorted : Ord(sorted[k].dueDate) <= Ord(last.dueDate)})
       IN  SubSeq(sorted, 1, n) \o <<last>> \o SubSeq(sorted, n + 1, Len(sorted))

activeReminders(ops, dismissed) ==
  LET kept == SelectSeq(ops, LAMBDA op : Reminded(op, dismissed))
  IN  SortByDueDate([k \in DOMAIN kept |-> Reminder(kept[k])])

\* handleDismissReminder, from a reminder that the header shows
DismissReminder(reminderId) ==
  /\ currentUser # NoUser
  /\ reminderId \in IdsOf(activeReminders(operations, dismissedReminderIds))
  /\ dismissedReminderIds' = Append(dismissedReminderIds, reminderId)
  /\ lastNote' = "none"
  /\ UNCHANGED <<storeVars, viewVars, isLoading, operationToUpdateStatus, handlers,
                 concurrency, expandIn, expandOut, dashProps, snapshot, currentUser>>

\* ------------------------------------------------------ Dashboard.stats
\* the props of a render: receiptsDefined is FALSE when the receipts prop is
\* not passed (receipts is then undefined, here the empty sequence)
NoProps == [operations |-> <<>>, receipts |-> <<>>, receiptsDefined |-> FALSE]

Max0(x) == IF x > 0 THEN x ELSE 0

activeOperationsWithPaid(ops) == ops

\* operations.filter(op => op.status === 'aberto' || op.status === 'atrasado')
activeOperations(ops) ==
  SelectSeq(ops, LAMBDA op : op.status = "aberto" \/ op.status = "atrasado")

paidPrincipal(op, rcpts) == SeqSum(ReceiptsOf(rcpts, op.id), "valor_principal_pago")
paidInterest(op, rcpts) == SeqSum(ReceiptsOf(rcpts, op.id), "valor_juros_pago")

\* const originalInterest = op.nominalValue - op.netValue
originalInterest(op) == op.nominalValue - op.netValue

remainingPrincipalUnfloored(op, rcpts) == op.netValue - paidPrincipal(op, rcpts)

\* Math.max(0, op.netValue - paidPrincipal)
remainingPrincipal(op, rcpts) == Max0(op.netValue - paidPrincipal(op, rcpts))

\* Math.max(0, originalInterest - paidInterest)
remainingInterest(op, rcpts) == Max0(originalInterest(op) - paidInterest(op, rcpts))

currentDebtPrincipalOnly(op, rcpts) == remainingPrincipal(op, rcpts)

\* const currentDebt = remainingPrincipal + remainingInterest
currentDebt(op, rcpts) == remainingPrincipal(op, rcpts) + remainingInterest(op, rcpts)

DelinquentAnyActive(op) == TRUE

\* if (op.status === 'atrasado')
Delinquent(op) == op.status = "atrasado"

ZeroTotals ==
  [outcome |-> "stats", activeCapital |-> 0, totalReceivables |-> 0,
   interestToReceive |-> 0, delinquencyValue |-> 0, rows |-> <<>>, runs |-> 0]

\* nothing computed yet; the computation threw
NoSnapshot == [ZeroTotals EXCEPT !.outcome = "none"]
TypeError == [ZeroTotals EXCEPT !.outcome = "TypeError"]

InitialTotalsCarried(previous) == [previous EXCEPT !.outcome = "stats", !.rows = <<>>]

\* the four totals are declared inside the memoised callback: every
\* computation starts from zero, whatever was computed before
InitialTotals(previous) == ZeroTotals

\* one turn of activeOperations.forEach; rows records the remainders of the
\* operation, which the code keeps in local constants
AddOperation(totals, op, rcpts) ==
  [outcome |-> "stats",
   activeCapital |-> totals.activeCapital + remainingPrincipal(op, rcpts),
   totalReceivables |-> totals.totalReceivables + currentDebt(op, rcpts),
   interestToReceive |-> totals.interestToReceive + remainingInterest(op, rcpts),
   delinquencyValue |-> totals.delinquencyValue
                          + (IF Delinquent(op) THEN currentDebt(op, rcpts) ELSE 0),
   rows |-> Append(totals.rows,
                   [id |-> op.id,
                    remainingPrincipal |-> remainingPrincipal(op, rcpts),
                    remainingInterest |-> remainingInterest(op, rcpts)]),
   runs |-> totals.runs]

RECURSIVE ForEach(_, _, _)
ForEach(totals, ops, rcpts) ==
  IF ops = <<>> THEN totals
  ELSE ForEach(AddOperation(totals, Head(ops), rcpts), Tail(ops), rcpts)

\* receipts.filter on a missing receipts prop throws on the first active
\* operation
stats(previous, props) ==
  IF ~props.receiptsDefined /\ activeOperations(props.operations) # <<>>
  THEN TypeError
  ELSE ForEach(InitialTotals(previous), activeOperations(props.operations),
               props.receipts)

\* the operations and receipts a render can receive: nominal 100 with a
\* taxa of 10 or -10 (netValue 110 or 90)
DashStatuses == Statuses
DashOperationChoices ==
  {[status |-> st, netValue |-> nv] :
     st \in DashStatuses, nv \in {90 * CentUnits, 110 * CentUnits}}
DashReceiptChoices ==
  {[operationId |-> o, valor_principal_pago |-> p, valor_juros_pago |-> j] :
     o \in 1 .. MaxDashOps, p \in {60 * CentUnits, 150 * CentUnits},
     j \in {0, 20 * CentUnits}}

\* operations and receipts are kept by descending id
DashOperation(n, i, c) ==
  [id |-> n + 1 - i, clientId |-> 1, type |-> "duplicata", titleNumber |-> <<"T">>,
   nominalValue |-> 100 * CentUnits, netValue |-> c.netValue,
   issueDate |-> MkDate(1, 1), dueDate |-> Today,
   taxa |-> (c.netValue - 100 * CentUnits) \div CentUnits, status |-> c.status]

DashReceipt(n, i, c) ==
  [id |-> n + 1 - i, operationId |-> c.operationId,
   valor_principal_pago |-> c.valor_principal_pago,
   valor_juros_pago |-> c.valor_juros_pago]

DashOperations ==
  UNION {{[i \in 1 .. n |-> DashOperation(n, i, f[i])] :
            f \in [1 .. n -> DashOperationChoices]} : n \in 0 .. MaxDashOps}

DashReceipts ==
  UNION {{[i \in 1 .. n |-> DashReceipt(n, i, f[i])] :
            f \in [1 .. n -> DashReceiptChoices]} : n \in 0 .. MaxDashReceipts}

\* the props of <Dashboard operations={ops} receipts={rcpts} />, or of
\* <Dashboard operations={ops} /> when the receipts prop is not passed
DashProps(ops, rcpts, passed) ==
  [operations |-> ops, receipts |-> IF passed THEN rcpts ELSE <<>>,
   receiptsDefined |-> passed]

\* Dashboard renders, or renders again, with its props: stats is computed
RenderDashboard ==
  /\ snapshot.runs < MaxRenders
  /\ snapshot' = [stats(snapshot, dashProps) EXCEPT !.runs = snapshot.runs + 1]
  /\ UNCHANGED <<storeVars, viewVars, isLoading, operationToUpdateStatus, handlers,
                 concurrency, lastNote, expandIn, expandOut, dashProps, currentUser,
                 dismissedReminderIds>>

\* ------------------------------------------------------- specification
NoOperations == <<>>

\* the pages, and with them the handlers, are rendered for an authenticated
\* user: the first user has logged in
LoggedIn == currentUser = 1

\* two operations registered earlier through handleAddOperation: one of
\* client 1 already past due, one of client 2 due today
SeedOpData(id) ==
  [clientId |-> id, type |-> "duplicata", titleNumber |-> "T",
   nominalValue |-> 500 * CentUnits, issueDate |-> MkDate(1, 1),
   dueDate |-> IF id = 1 THEN MkDate(1, 31) ELSE Today,
   taxa |-> IF id = 1 THEN 10 ELSE 0, installments |-> 1]

SeedOperations == [id \in {1, 2} |-> SinglePayload(SeedOpData(id))]

\* the application has just been mounted: empty React state, fetchData running
InitApp ==
  /\ clients = <<>> /\ operations = <<>> /\ receipts = <<>> /\ users = <<>>
  /\ isLoading = TRUE
  /\ operationToUpdateStatus = NoRequest
  /\ handlers = [s \in Slots |->
                   IF s = 1 THEN [Idle EXCEPT !.kind = "fetchData", !.pc = "users"] ELSE Idle]
  /\ lastNote = "none"
  /\ expandIn = NoExpansion
  /\ expandOut = <<>>
  /\ dashProps = NoProps
  /\ snapshot = NoSnapshot
  /\ dismissedReminderIds = <<>>

InitStore(ops) ==
  /\ dbClients = ClientIds
  /\ dbUsers = UserIds
  /\ dbOperations = ops
  /\ dbReceipts = <<>>
  /\ nextOpId = Cardinality(DOMAIN ops) + 1
  /\ nextReceiptId = 1

Load(s) ==
  \E ok \in BOOLEAN :
    \/ FetchUsers(s, ok)
    \/ FetchClients(s, ok)
    \/ FetchOperations(s, ok)
    \/ FetchReceipts(s, ok)

Reconcile(s) ==
  \/ \E ok \in BOOLEAN :
       \/ UpdateStatusAck(s, ok)
       \/ AddReceiptAck(s, ok)
       \/ ExtendAck(s, ok)
       \/ DeleteReceiptAck(s, ok)
  \/ \E receiptData \in ReceiptDatas : StartAddReceipt(s, receiptData)
  \/ \E receiptId \in 1 .. MaxReceiptId : StartDeleteReceipt(s, receiptId)

ChangeStatus(s) ==
  \/ ConfirmStatusUpdate(s)
  \/ \E operationId \in 1 .. MaxOpId, status \in Statuses :
       StatusChangeRequest(s, operationId, status)

Create(s) ==
  \/ \E ok \in BOOLEAN : AddOperationAck(s, ok)
  \/ \E opData \in OpDatas, east \in BOOLEAN, tieUp \in BOOLEAN :
       StartAddOperation(s, opData, east, tieUp)

Remove(s) ==
  \/ \E ok \in BOOLEAN :
       \/ DeleteOperationAck(s, ok)
       \/ DeleteClientAck(s, ok)
  \/ \E operationId \in 1 .. MaxOpId : StartDeleteOperation(s, operationId)
  \/ \E clientId \in ClientIds : StartDeleteClient(s, clientId)

\* receipts and the status machine over the registered operations, one
\* request at a time
Init == InitStore(SeedOperations) /\ InitApp /\ LoggedIn /\ concurrency = 1

Next ==
  \/ Mount
  \/ CancelStatusUpdate
  \/ \E s \in Slots : Load(s) \/ Return(s) \/ Reconcile(s) \/ ChangeStatus(s)

Spec == Init /\ [][Next]_vars

\* the same, with overlapping requests
InitConcurrent ==
  InitStore(SeedOperations) /\ InitApp /\ LoggedIn /\ concurrency = MaxInFlight

NextConcurrent == \E s \in Slots : Load(s) \/ Return(s) \/ Reconcile(s)

SpecConcurrent == InitConcurrent /\ [][NextConcurrent]_vars

\* every read of fetchData answered by the store
LoadAll(s) ==
  \/ FetchUsers(s, TRUE)
  \/ FetchClients(s, TRUE)
  \/ FetchOperations(s, TRUE)
  \/ FetchReceipts(s, TRUE)

\* settlement receipts added and receipts deleted, every request accepted by
\* the store
Settle(s) ==
  \/ UpdateStatusAck(s, TRUE)
  \/ AddReceiptAck(s, TRUE)
  \/ DeleteReceiptAck(s, TRUE)
  \/ \E receiptData \in {r \in ReceiptDatas : r.newDueDate = NoDate} :
       StartAddReceipt(s, receiptData)
  \/ \E receiptId \in 1 .. MaxReceiptId : StartDeleteReceipt(s, receiptId)

\* overlapping handleAddReceipt and handleDeleteReceipt calls with no date
\* extension, no status selector and a store that accepts every request
NextSettle == \E s \in Slots : LoadAll(s) \/ Return(s) \/ Settle(s)

SpecSettle == InitConcurrent /\ [][NextSettle]_vars

\* overlapping calls that add and delete receipts, register an operation and
\* delete operations and clients
Integrity(s) ==
  \/ \E ok \in BOOLEAN :
       \/ AddOperationAck(s, ok)
       \/ AddReceiptAck(s, ok)
       \/ UpdateStatusAck(s, ok)
       \/ DeleteReceiptAck(s, ok)
       \/ DeleteOperationAck(s, ok)
       \/ DeleteClientAck(s, ok)
  \/ StartAddOperation(s, SeedOpData(1), FALSE, FALSE)
  \/ \E clientId \in ClientIds : StartDeleteClient(s, clientId)
  \/ \E receiptData \in {r \in ReceiptDatas :
                          /\ r.newDueDate = NoDate
                          /\ r.valor_principal_pago < SeedOpData(1).nominalValue} :
       StartAddReceipt(s, receiptData)
  \/ \E receiptId \in 1 .. MaxReceiptId : StartDeleteReceipt(s, receiptId)
  \/ \E operationId \in 1 .. MaxOpId : StartDeleteOperation(s, operationId)

\* the store holds the operation of client 1; the ids below MaxOpId have been
\* given out, to operations deleted since
InitIntegrity ==
  /\ dbClients = ClientIds
  /\ dbUsers = UserIds
  /\ dbOperations = [id \in {1} |-> SeedOperations[id]]
  /\ dbReceipts = <<>>
  /\ nextOpId = MaxOpId
  /\ nextReceiptId = 1
  /\ InitApp
  /\ LoggedIn
  /\ concurrency = MaxInFlight

NextIntegrity == \E s \in Slots : LoadAll(s) \/ Return(s) \/ Integrity(s)

SpecIntegrity == InitIntegrity /\ [][NextIntegrity]_vars

\* overlapping status changes of the one stored operation from the
\* operations page, the answers of the store arriving in any order
NextOverlap ==
  \/ CancelStatusUpdate
  \/ \E s \in Slots :
       \/ LoadAll(s) \/ Return(s) \/ ChangeStatus(s)
       \/ \E ok \in BOOLEAN : UpdateStatusStored(s, ok)
       \/ UpdateStatusAnswered(s)

SpecOverlap == InitIntegrity /\ [][NextOverlap]_vars

\* the operations page: status changes and deletions, one request at a time
NextNotify ==
  \/ CancelStatusUpdate
  \/ \E s \in Slots :
       \/ Load(s) \/ Return(s) \/ ChangeStatus(s) \/ Remove(s)
       \/ \E ok \in BOOLEAN : UpdateStatusAck(s, ok)

SpecNotify == Init /\ [][NextNotify]_vars

\* registering operations in an empty portfolio
InitCreate == InitStore(NoOperations) /\ InitApp /\ LoggedIn /\ concurrency = 1

NextCreate ==
  \/ Mount
  \/ \E s \in Slots : Load(s) \/ Return(s) \/ Create(s)

SpecCreate == InitCreate /\ [][NextCreate]_vars

\* the same, over every installment count the form lets through
Submit(s) ==
  \/ \E ok \in BOOLEAN : AddOperationAck(s, ok)
  \/ \E opData \in SubmittedOpDatas, east \in BOOLEAN, tieUp \in BOOLEAN :
       StartAddOperation(s, opData, east, tieUp)

NextSubmit ==
  \/ Mount
  \/ \E s \in Slots : Load(s) \/ Return(s) \/ Submit(s)

SpecSubmit == InitCreate /\ [][NextSubmit]_vars

\* receipts added and deleted after a load that may have failed, so that the
\* view may lack operations that the store holds
ReconcileAny(s) ==
  \/ \E ok \in BOOLEAN :
       \/ UpdateStatusAck(s, ok)
       \/ AddReceiptAck(s, ok)
       \/ ExtendAck(s, ok)
       \/ DeleteReceiptAck(s, ok)
  \/ \E receiptData \in ReceiptDatas : CallAddReceipt(s, receiptData)
  \/ \E receiptId \in 1 .. MaxReceiptId : StartDeleteReceipt(s, receiptId)

NextMissing == \E s \in Slots : Load(s) \/ Return(s) \/ ReconcileAny(s)

SpecMissing == Init /\ [][NextMissing]_vars

\* reminders over three operations due today, in seven days and in eight
\* days, whose status the operations page changes
ReminderOpData(id) ==
  [SeedOpData(2) EXCEPT !.dueDate = IF id = 1 THEN Today
                                    ELSE MkDate(2, 10 + REMINDER_WINDOW_DAYS + id - 2)]

ReminderOperations == [id \in {1, 2, 3} |-> SinglePayload(ReminderOpData(id))]

InitReminders ==
  InitStore(ReminderOperations) /\ InitApp /\ LoggedIn /\ concurrency = 1

NextReminders ==
  \/ Mount
  \/ CancelStatusUpdate
  \/ \E reminderId \in 1 .. MaxOpId : DismissReminder(reminderId)
  \/ \E s \in Slots :
       \/ Load(s) \/ Return(s) \/ ChangeStatus(s)
       \/ \E ok \in BOOLEAN : UpdateStatusAck(s, ok)

SpecReminders == InitReminders /\ [][NextReminders]_vars

\* users logging in and out and deleting users; nobody has logged in yet
Session(s) ==
  \/ \E ok \in BOOLEAN : LoginAck(s, ok)
  \/ \E userId \in UserIds : StartLogin(s, userId)

RemoveUser(s) ==
  \/ \E ok \in BOOLEAN : DeleteUserAck(s, ok)
  \/ \E userId \in UserIds : StartDeleteUser(s, userId)

InitUsers ==
  InitStore(NoOperations) /\ InitApp /\ currentUser = NoUser /\ concurrency = 1

NextUsers ==
  \/ Logout
  \/ \E s \in Slots : Load(s) \/ Return(s) \/ Session(s) \/ RemoveUser(s)

SpecUsers == InitUsers /\ [][NextUsers]_vars

\* the installment expansion of handleAddOperation on its own, over every
\* total in whole cents up to MaxCents and every count from 2 to MaxCount
Expansions ==
  {[totalNominal |-> c * CentUnits, count |-> n, tieUp |-> t] :
     c \in 0 .. MaxCents, n \in 2 .. MaxCount, t \in BOOLEAN}

InitExpand ==
  /\ InitStore(NoOperations)
  /\ clients = <<>> /\ operations = <<>> /\ receipts = <<>> /\ users = <<>>
  /\ isLoading = FALSE
  /\ operationToUpdateStatus = NoRequest
  /\ handlers = [s \in Slots |-> Idle]
  /\ lastNote = "none"
  /\ concurrency = 1
  /\ expandIn \in Expansions
  /\ expandOut = <<>>
  /\ dashProps = NoProps
  /\ snapshot = NoSnapshot
  /\ LoggedIn
  /\ dismissedReminderIds = <<>>

Expand ==
  /\ expandIn # NoExpansion
  /\ expandOut = <<>>
  /\ expandOut' = [k \in 1 .. expandIn.count |->
                     InstallmentValue(expandIn.totalNominal, expandIn.count, k - 1,
                                      expandIn.tieUp)]
  /\ UNCHANGED <<storeVars, viewVars, isLoading, operationToUpdateStatus, handlers,
                 concurrency, lastNote, expandIn, dashProps, snapshot, currentUser,
                 dismissedReminderIds>>

SpecExpand == InitExpand /\ [][Expand]_vars

\* deleting clients and operations in a portfolio of three operations, two of
\* client 1 and one of client 2, each with one receipt
PortfolioIds == {1, 2, 3}

PortfolioOpData(id) == [SeedOpData(1) EXCEPT !.clientId = IF id <= 2 THEN 1 ELSE 2]

PortfolioOperations == [id \in PortfolioIds |-> SinglePayload(PortfolioOpData(id))]

PortfolioReceipts ==
  [id \in PortfolioIds |->
     [operation_id |-> id, valor_principal_pago |-> 300 * CentUnits, valor_juros_pago |-> 0]]

InitRemove ==
  /\ dbClients = ClientIds
  /\ dbUsers = UserIds
  /\ dbOperations = PortfolioOperations
  /\ dbReceipts = PortfolioReceipts
  /\ nextOpId = Cardinality(PortfolioIds) + 1
  /\ nextReceiptId = Cardinality(PortfolioIds) + 1
  /\ InitApp
  /\ LoggedIn
  /\ concurrency = 1

NextRemove ==
  \/ Mount
  \/ \E s \in Slots : Load(s) \/ Return(s) \/ Remove(s)

SpecRemove == InitRemove /\ [][NextRemove]_vars

\* the Dashboard on its own, over the operations and receipts it can be given
InitDashboard ==
  /\ InitStore(NoOperations)
  /\ clients = <<>> /\ operations = <<>> /\ receipts = <<>> /\ users = <<>>
  /\ isLoading = FALSE
  /\ operationToUpdateStatus = NoRequest
  /\ handlers = [s \in Slots |-> Idle]
  /\ lastNote = "none"
  /\ concurrency = 1
  /\ expandIn = NoExpansion
  /\ expandOut = <<>>
  /\ \E ops \in DashOperations, rcpts \in DashReceipts, passed \in BOOLEAN :
       dashProps = DashProps(ops, rcpts, passed)
  /\ snapshot = NoSnapshot
  /\ LoggedIn
  /\ dismissedReminderIds = <<>>

SpecDashboard == InitDashboard /\ [][RenderDashboard]_vars

\* ============================================================ properties
\* a handler of that kind has run to its end without any store error
Succeeded(s, kind) ==
  handlers[s].kind = kind /\ handlers[s].pc = "done" /\ ~handlers[s].err

\* the settlement receipt (no newDueDate) of slot s has been applied to an
\* operation that was, and is, in the view
SettlementApplied(s) ==
  /\ Succeeded(s, "addReceipt")
  /\ handlers[s].arg.newDueDate = NoDate
  /\ HasId(handlers[s].ops, handlers[s].arg.operationId)
  /\ HasId(operations, handlers[s].arg.operationId)

\* C1: once a settlement receipt has been added, its operation is `pago` if
\* the principal of all its receipts in the view, the new one included,
\* reaches nominalValue, and keeps the status it had otherwise.
C1_PaymentCompletion ==
  \A s \in Slots :
    SettlementApplied(s) =>
      LET id == handlers[s].arg.operationId
          before == FindById(handlers[s].ops, id)
          now == FindById(operations, id)
      IN  now.status = IF PrincipalPaid(receipts, id) >= now.nominalValue
                       THEN "pago" ELSE before.status

\* a second receipt has closed an operation that the first one left open,
\* although interest was due on top of the nominal value
C1_Witness ==
  \E s \in Slots :
    /\ SettlementApplied(s)
    /\ LET id == handlers[s].arg.operationId
       IN  /\ Len(ReceiptsOf(receipts, id)) = 2
           /\ PrincipalPaid(handlers[s].rcpts, id) < FindById(operations, id).nominalValue
           /\ FindById(handlers[s].ops, id).status # "pago"
           /\ FindById(operations, id).status = "pago"
           /\ FindById(operations, id).netValue > PrincipalPaid(receipts, id)

ExtensionApplied(s) ==
  /\ Succeeded(s, "addReceipt")
  /\ handlers[s].arg.newDueDate # NoDate
  /\ HasId(handlers[s].ops, handlers[s].arg.operationId)
  /\ HasId(operations, handlers[s].arg.operationId)

\* C2: once a receipt carrying newDueDate has been added, its operation has
\* that due date and status `aberto`, whatever its status and whatever the
\* principal paid.
C2_DateExtension ==
  \A s \in Slots :
    ExtensionApplied(s) =>
      LET now == FindById(operations, handlers[s].arg.operationId)
      IN  now.dueDate = handlers[s].arg.newDueDate /\ now.status = "aberto"

\* a paid-up operation has been reopened by a date extension
C2_Witness ==
  \E s \in Slots :
    /\ ExtensionApplied(s)
    /\ LET id == handlers[s].arg.operationId
       IN  /\ FindById(handlers[s].ops, id).status = "pago"
           /\ PrincipalPaid(receipts, id) >= FindById(operations, id).nominalValue
           /\ FindById(operations, id).status = "aberto"

\* the receipt of slot s has been deleted; its operation was in the view
\* with status st when the deletion was requested, and still is in the view
ReceiptDeleted(s, st) ==
  /\ Succeeded(s, "deleteReceipt")
  /\ HasId(handlers[s].ops, handlers[s].arg.receiptToDelete.operationId)
  /\ HasId(operations, handlers[s].arg.receiptToDelete.operationId)
  /\ FindById(handlers[s].ops, handlers[s].arg.receiptToDelete.operationId).status = st

\* C3: once a receipt of a `pago` operation has been deleted, the operation
\* is still `pago` if the principal of its remaining receipts reaches
\* nominalValue, else `atrasado` if its due date is before today, else
\* `aberto`.
C3_Reversal ==
  \A s \in Slots :
    ReceiptDeleted(s, "pago") =>
      LET id == handlers[s].arg.receiptToDelete.operationId
          now == FindById(operations, id)
      IN  now.status = IF PrincipalPaid(receipts, id) >= now.nominalValue THEN "pago"
                       ELSE IF Ord(now.dueDate) < Ord(Today) THEN "atrasado"
                       ELSE "aberto"

\* deleting the receipt that paid a past-due operation made it `atrasado`
C3_Witness ==
  \E s \in Slots :
    /\ ReceiptDeleted(s, "pago")
    /\ LET id == handlers[s].arg.receiptToDelete.operationId
       IN  /\ handlers[s].arg.receiptToDelete.valor_principal_pago
                >= FindById(operations, id).nominalValue
           /\ FindById(operations, id).status = "atrasado"

\* C4: deleting a receipt of an operation that is `aberto` or `atrasado`
\* removes that receipt from the view and nothing else, and sends no
\* operation update to the store.
C4_ReversalStopsIfNotPaid ==
  \A s \in Slots :
    (ReceiptDeleted(s, "aberto") \/ ReceiptDeleted(s, "atrasado")) =>
      /\ operations = handlers[s].ops
      /\ receipts = SelectSeq(handlers[s].rcpts, LAMBDA r : r.id # handlers[s].arg.receiptId)
      /\ handlers[s].upd = NoUpdate

\* one of two receipts of an overdue operation has been deleted, leaving
\* less than the nominal value paid
C4_Witness ==
  \E s \in Slots :
    /\ ReceiptDeleted(s, "atrasado")
    /\ Len(receipts) = 1
    /\ receipts[1].operationId = handlers[s].arg.receiptToDelete.operationId
    /\ receipts[1].valor_principal_pago
         < FindById(operations, receipts[1].operationId).nominalValue

\* C5: when two settlement receipts of one operation have been added by
\* handlers that started from the same view, and the principal of all its
\* receipts reaches nominalValue, the operation is `pago` once both handlers
\* have finished.
C5_ConcurrentReceiptsSeeEachOther ==
  \A s \in Slots, t \in Slots :
    ( /\ s # t
      /\ SettlementApplied(s) /\ SettlementApplied(t)
      /\ handlers[s].arg.operationId = handlers[t].arg.operationId
      /\ handlers[s].rcpts = handlers[t].rcpts
      /\ PrincipalPaid(receipts, handlers[s].arg.operationId)
           >= FindById(operations, handlers[s].arg.operationId).nominalValue )
    => FindById(operations, handlers[s].arg.operationId).status = "pago"

\* the receipt that the addReceipt handler of slot s sent is in the store
ReceiptStored(s) ==
  \E id \in DOMAIN dbReceipts :
    /\ dbReceipts[id].operation_id = handlers[s].arg.operationId
    /\ dbReceipts[id].valor_principal_pago = handlers[s].arg.valor_principal_pago
    /\ dbReceipts[id].valor_juros_pago = handlers[s].arg.valor_juros_pago

\* C6: handleAddReceipt goes on to the operation update only in the step in
\* which the store acknowledges the receipt insert, and sends the update
\* with the receipt stored; when the insert fails the handler ends with no
\* update issued and the receipts and operations, in memory and in the
\* store, are as they were; no other step writes an operation.
C6_WriteOrdering ==
  [][ /\ \A s \in Slots :
           (handlers[s].kind = "addReceipt" /\ handlers[s].pc = "insert"
              /\ handlers'[s] # handlers[s]) =>
             /\ UNCHANGED <<operations, dbOperations>>
             /\ handlers'[s].upd # NoUpdate =>
                  /\ ~handlers'[s].err
                  /\ nextReceiptId \notin DOMAIN dbReceipts
                  /\ nextReceiptId \in DOMAIN dbReceipts'
                  /\ dbReceipts'[nextReceiptId].operation_id = handlers[s].arg.operationId
             /\ handlers'[s].err =>
                  /\ handlers'[s].pc = "done"
                  /\ handlers'[s].upd = NoUpdate
                  /\ UNCHANGED <<receipts, dbReceipts>>
      /\ \A s \in Slots :
           (handlers[s].kind = "addReceipt" /\ handlers[s].pc \in {"status", "extend"}) =>
             ReceiptStored(s)
      /\ dbOperations' # dbOperations =>
           \E s \in Slots : /\ handlers[s].pc \in {"status", "extend"}
                            /\ handlers[s].upd # NoUpdate
                            /\ handlers'[s].pc = "done"
    ]_vars

\* a receipt that would have closed its operation failed to insert: the
\* handler has ended without an update and the operation is as it was
C6_Witness ==
  \E s \in Slots :
    /\ handlers[s].kind = "addReceipt" /\ handlers[s].pc = "done"
    /\ handlers[s].err /\ handlers[s].upd = NoUpdate
    /\ HasId(handlers[s].ops, handlers[s].arg.operationId)
    /\ ClosesOperation(TotalWithNew(handlers[s].rcpts, handlers[s].arg),
                       FindById(handlers[s].ops, handlers[s].arg.operationId))
    /\ operations = handlers[s].ops
    /\ receipts = handlers[s].rcpts
    /\ Len(receipts) = 1

\* C7: no operation in the view whose dueDate is before today has status
\* `aberto`.
C7_OverdueAlwaysReflected ==
  \A i \in DOMAIN operations :
    ~(Ord(operations[i].dueDate) < Ord(Today) /\ operations[i].status = "aberto")

\* C8: after a successful load the view holds the stored operations, each
\* with its stored status, except that one stored `aberto` with a dueDate
\* before today is `atrasado`.
C8_ReclassificationOnLoad ==
  \A s \in Slots :
    Succeeded(s, "fetchData") =>
      /\ IdsOf(operations) = DOMAIN dbOperations
      /\ \A i \in DOMAIN operations :
           LET stored == dbOperations[operations[i].id]
           IN  operations[i].status =
                 IF stored.status = "aberto" /\ Ord(stored.due_date) < Ord(Today)
                 THEN "atrasado" ELSE stored.status

\* a load has shown a past-due `aberto` operation as `atrasado`, left one
\* due today `aberto`, and kept a stored `pago`
C8_Witness ==
  \E s \in Slots :
    /\ Succeeded(s, "fetchData")
    /\ \E i \in DOMAIN operations, j \in DOMAIN operations :
         /\ dbOperations[operations[i].id].status = "aberto"
         /\ operations[i].dueDate = Today
         /\ operations[i].status = "aberto"
         /\ Ord(operations[j].dueDate) < Ord(Today)
         /\ \/ /\ dbOperations[operations[j].id].status = "aberto"
               /\ operations[j].status = "atrasado"
            \/ /\ dbOperations[operations[j].id].status = "pago"
               /\ operations[j].status = "pago"
               /\ receipts # <<>>

Abs(n) == IF n < 0 THEN -n ELSE n

\* C9: the values of an expansion sum to the total; every installment but
\* the last is the total divided by the count, rounded to the cent; the last
\* one is that plus the residual.
C9_RoundingConservation ==
  expandOut # <<>> =>
    LET total == expandIn.totalNominal
        count == expandIn.count
        per == expandOut[1]
    IN  /\ Len(expandOut) = count
        /\ SeqSum([k \in 1 .. count |-> [value |-> expandOut[k]]], "value") = total
        /\ per % CentUnits = 0
        /\ 2 * Abs(per * count - total) <= count * CentUnits
        /\ \A k \in 1 .. (count - 1) : expandOut[k] = per
        /\ expandOut[count] = per + (total - per * count)

\* an expansion in three or more installments whose last one differs
C9_Witness ==
  /\ expandOut # <<>>
  /\ Len(expandOut) >= 3
  /\ expandOut[Len(expandOut)] # expandOut[1]

\* C10: every stored operation has
\* net_value = nominal_value + nominal_value * taxa / 100.
C10_NetValueAtCreation ==
  \A id \in DOMAIN dbOperations :
    LET row == dbOperations[id]
    IN  row.net_value * PercentBase = row.nominal_value * PercentBase + row.nominal_value * row.taxa

\* the last installment of a batch is stored with interest on its own value,
\* which is not the value of the first
C10_Witness ==
  \E id \in DOMAIN dbOperations, first \in DOMAIN dbOperations :
    /\ Len(dbOperations[id].title_number) = 3
    /\ dbOperations[id].title_number[2] = dbOperations[id].title_number[3]
    /\ dbOperations[first].title_number = [dbOperations[id].title_number EXCEPT ![2] = 1]
    /\ dbOperations[id].nominal_value # dbOperations[first].nominal_value
    /\ dbOperations[id].taxa > 0
    /\ dbOperations[id].net_value > dbOperations[id].nominal_value

\* what a snapshot shows: the outcome, the four metrics and the remainders
Shown(snap) == [snap EXCEPT !.runs = 0]

Computed == snapshot.outcome = "stats" /\ dashProps.receiptsDefined

\* the sum of field over the rows of the snapshot whose operation has one
\* of the statuses
RowSum(statuses, field) ==
  SeqSum(SelectSeq(snapshot.rows,
                   LAMBDA row : FindById(dashProps.operations, row.id).status \in statuses),
         field)

\* C11: the snapshot has one row per active operation, with
\* remainingPrincipal = max(0, netValue - principal paid) and a
\* remainingInterest that is not negative.
C11_RemainderFloor ==
  Computed =>
    LET active == SelectSeq(dashProps.operations, LAMBDA op : op.status # "pago")
    IN  /\ Len(snapshot.rows) = Len(active)
        /\ \A k \in DOMAIN active :
             LET paid == PrincipalPaid(dashProps.receipts, active[k].id)
                 row == snapshot.rows[k]
             IN  /\ row.id = active[k].id
                 /\ row.remainingPrincipal =
                      (IF active[k].netValue > paid THEN active[k].netValue - paid ELSE 0)
                 /\ row.remainingPrincipal >= 0
                 /\ row.remainingInterest >= 0

\* an active operation paid beyond its net value has nothing remaining
C11_Witness ==
  /\ Computed
  /\ \E k \in DOMAIN snapshot.rows :
       /\ PrincipalPaid(dashProps.receipts, snapshot.rows[k].id)
            > FindById(dashProps.operations, snapshot.rows[k].id).netValue
       /\ snapshot.rows[k].remainingPrincipal = 0

\* C12: every active operation has
\* remainingInterest = max(0, (netValue - nominalValue) - interest paid),
\* and interestToReceive is the sum of these.
C12_RemainingInterest ==
  Computed =>
    /\ \A k \in DOMAIN snapshot.rows :
         LET op == FindById(dashProps.operations, snapshot.rows[k].id)
             due == (op.netValue - op.nominalValue)
                      - SeqSum(ReceiptsOf(dashProps.receipts, op.id), "valor_juros_pago")
         IN  snapshot.rows[k].remainingInterest = (IF due > 0 THEN due ELSE 0)
    /\ snapshot.interestToReceive = RowSum({"aberto", "atrasado"}, "remainingInterest")

\* C13: the four metrics are those of the same operations and receipts
\* without the `pago` operations and their receipts.
C13_AggregationScope ==
  Computed =>
    LET pago == {dashProps.operations[i].id :
                   i \in {j \in DOMAIN dashProps.operations :
                            dashProps.operations[j].status = "pago"}}
        without ==
          [operations |-> SelectSeq(dashProps.operations, LAMBDA op : op.id \notin pago),
           receipts |-> SelectSeq(dashProps.receipts, LAMBDA r : r.operationId \notin pago),
           receiptsDefined |-> TRUE]
        other == stats(NoSnapshot, without)
    IN  /\ snapshot.activeCapital = other.activeCapital
        /\ snapshot.totalReceivables = other.totalReceivables
        /\ snapshot.interestToReceive = other.interestToReceive
        /\ snapshot.delinquencyValue = other.delinquencyValue

\* a `pago` operation with a receipt and a balance, beside an active one
C13_Witness ==
  /\ Computed
  /\ snapshot.totalReceivables > 0
  /\ \E i \in DOMAIN dashProps.operations :
       /\ dashProps.operations[i].status = "pago"
       /\ ReceiptsOf(dashProps.receipts, dashProps.operations[i].id) # <<>>
       /\ dashProps.operations[i].netValue
            > PrincipalPaid(dashProps.receipts, dashProps.operations[i].id)

\* C14: delinquencyValue is the remaining principal and interest of the
\* `atrasado` operations; what the `aberto` ones have remaining is in
\* totalReceivables only.
C14_DelinquencyIsolation ==
  Computed =>
    /\ snapshot.delinquencyValue =
         RowSum({"atrasado"}, "remainingPrincipal") + RowSum({"atrasado"}, "remainingInterest")
    /\ snapshot.totalReceivables - snapshot.delinquencyValue =
         RowSum({"aberto"}, "remainingPrincipal") + RowSum({"aberto"}, "remainingInterest")

\* an `aberto` and an `atrasado` operation, both with debt remaining
C14_Witness ==
  /\ Computed
  /\ snapshot.delinquencyValue > 0
  /\ snapshot.totalReceivables > snapshot.delinquencyValue
  /\ \E i \in DOMAIN dashProps.operations : dashProps.operations[i].status = "aberto"

\* C15: activeCapital and interestToReceive are the sums of the remainders of
\* the active operations, totalReceivables is their sum, and
\* 0 <= delinquencyValue <= totalReceivables.
C15_SnapshotIdentities ==
  Computed =>
    /\ snapshot.activeCapital = SeqSum(snapshot.rows, "remainingPrincipal")
    /\ snapshot.interestToReceive = SeqSum(snapshot.rows, "remainingInterest")
    /\ snapshot.totalReceivables = snapshot.activeCapital + snapshot.interestToReceive
    /\ 0 <= snapshot.delinquencyValue
    /\ snapshot.delinquencyValue <= snapshot.totalReceivables

\* two active operations, with principal and interest remaining
C15_Witness ==
  /\ Computed
  /\ Len(snapshot.rows) = 2
  /\ snapshot.activeCapital > 0
  /\ snapshot.interestToReceive > 0
  /\ snapshot.delinquencyValue > 0
  /\ snapshot.delinquencyValue < snapshot.totalReceivables

\* C16: computing stats again on the same props shows the same snapshot, and
\* computing it leaves the props as they were.
C16_PureAndIdempotent ==
  [][ snapshot'.runs > snapshot.runs =>
        /\ dashProps' = dashProps
        /\ snapshot.runs >= 1 => Shown(snapshot') = Shown(snapshot)
    ]_vars

\* stats has been computed twice on operations with debt remaining
C16_Witness ==
  /\ Computed
  /\ snapshot.runs = 2
  /\ snapshot.totalReceivables > 0

\* the handler of that kind in slot s gets the store's answer to its delete
Answered(s, kind) ==
  /\ handlers[s].kind = kind /\ handlers[s].pc = "delete"
  /\ handlers'[s].pc = "done"

\* C17: when the store acknowledges deleteClient, the view loses that
\* client, its operations and the receipts of those operations, and keeps
\* every other client, operation and receipt as it was; afterwards no
\* operation of the view has that clientId.
C17_ClientCascadeDelete ==
  [][ \A s \in Slots :
        (Answered(s, "deleteClient") /\ ~handlers'[s].err) =>
          LET clientId == handlers[s].arg.clientId
              gone == {operations[i].id :
                         i \in {j \in DOMAIN operations : operations[j].clientId = clientId}}
          IN  /\ clients' = SelectSeq(clients, LAMBDA c : c # clientId)
              /\ operations' = SelectSeq(operations, LAMBDA op : op.clientId # clientId)
              /\ receipts' = SelectSeq(receipts, LAMBDA r : r.operationId \notin gone)
              /\ \A i \in DOMAIN operations' : operations'[i].clientId # clientId
              /\ \A i \in DOMAIN receipts' : HasId(operations', receipts'[i].operationId)
    ]_vars

\* a client with two operations of one receipt each has been deleted: the
\* operation and the receipt of the other client remain
C17_Witness ==
  \E s \in Slots :
    /\ Succeeded(s, "deleteClient")
    /\ Cardinality(opsToDelete(handlers[s].ops, handlers[s].arg.clientId)) = 2
    /\ Len(handlers[s].rcpts) = 3
    /\ Len(operations) = 1 /\ Len(receipts) = 1
    /\ operations[1].clientId # handlers[s].arg.clientId
    /\ receipts[1].operationId = operations[1].id
    /\ Len(clients) = 1

\* C18: when the store acknowledges deleteOperation(id), the view loses that
\* operation and the receipts with operationId = id and keeps every other
\* operation and receipt; when the delete fails the operations and receipts
\* are as they were.
C18_OperationDeleteCascades ==
  [][ \A s \in Slots :
        Answered(s, "deleteOperation") =>
          LET id == handlers[s].arg.operationId
          IN  IF handlers'[s].err
              THEN UNCHANGED <<operations, receipts, clients>>
              ELSE /\ operations' = SelectSeq(operations, LAMBDA op : op.id # id)
                   /\ receipts' = SelectSeq(receipts, LAMBDA r : r.operationId # id)
                   /\ ~HasId(operations', id)
                   /\ \A i \in DOMAIN receipts' : receipts'[i].operationId # id
                   /\ UNCHANGED clients
    ]_vars

\* an operation with a receipt has been deleted; two operations and their
\* receipts remain
C18_Witness ==
  \E s \in Slots :
    /\ Succeeded(s, "deleteOperation")
    /\ ReceiptsOf(handlers[s].rcpts, handlers[s].arg.operationId) # <<>>
    /\ ~HasId(operations, handlers[s].arg.operationId)
    /\ Len(operations) = 2 /\ Len(receipts) = 2

\* C19: a request for `pago` only opens the confirmation and changes no
\* operation and starts no update; a status update to `pago` is started from
\* the page only by confirming the pending request; once acknowledged the
\* operation is `pago`; cancelling closes the request and changes nothing.
C19_ManualOverrideNeedsConfirmation ==
  [][ /\ (operationToUpdateStatus = NoRequest /\ operationToUpdateStatus' # NoRequest) =>
           /\ operationToUpdateStatus'.status = "pago"
           /\ HasId(operations, operationToUpdateStatus'.id)
           /\ UNCHANGED <<handlers, operations, receipts, storeVars>>
      /\ \A s \in Slots :
           ( /\ handlers[s].kind # "updateStatus"
             /\ handlers'[s].kind = "updateStatus"
             /\ handlers'[s].upd.status = "pago" ) =>
             /\ operationToUpdateStatus =
                  [id |-> handlers'[s].upd.operationId, status |-> "pago"]
             /\ operationToUpdateStatus' = NoRequest
             /\ UNCHANGED <<operations, receipts, storeVars>>
      /\ \A s \in Slots :
           ( /\ handlers[s].kind = "updateStatus" /\ handlers[s].upd.status = "pago"
             /\ handlers[s].pc = "status" /\ handlers'[s].pc = "done"
             /\ ~handlers'[s].err
             /\ HasId(operations, handlers[s].upd.operationId) ) =>
             FindById(operations', handlers[s].upd.operationId).status = "pago"
      /\ ( /\ operationToUpdateStatus # NoRequest
           /\ operationToUpdateStatus' = NoRequest
           /\ handlers' = handlers ) =>
           UNCHANGED <<operations, receipts, storeVars>>
    ]_vars

\* a confirmed override has made `pago` an operation whose receipts do not
\* cover its nominal value
C19_Witness ==
  \E s \in Slots :
    /\ Succeeded(s, "updateStatus")
    /\ handlers[s].upd.status = "pago"
    /\ HasId(handlers[s].ops, handlers[s].upd.operationId)
    /\ FindById(handlers[s].ops, handlers[s].upd.operationId).status # "pago"
    /\ HasId(operations, handlers[s].upd.operationId)
    /\ FindById(operations, handlers[s].upd.operationId).status = "pago"
    /\ PrincipalPaid(receipts, handlers[s].upd.operationId)
         < FindById(operations, handlers[s].upd.operationId).nominalValue

\* C20: the only status update the page starts is the confirmed override to
\* `pago`; every other manual request issues no update.
C20_UnlistedTransitionsAreNoOps ==
  \A s \in Slots :
    handlers[s].kind = "updateStatus" => handlers[s].upd.status = "pago"

\* the handleAddOperation of slot s is waiting for the store
Creating(s) == handlers[s].kind = "addOperation" /\ handlers[s].pc = "insert"

\* C21: no insert is sent to the store for a `parcelamento` whose installment
\* count is outside [2, 60].
C21_InstallmentCountBounds ==
  \A s \in Slots :
    (Creating(s) /\ handlers[s].arg.opData.type = "parcelamento") =>
      handlers[s].arg.opData.installments \in InstallmentsMin .. InstallmentsMax

UsersShown == {users[i] : i \in DOMAIN users}

\* C22: a deleteUser for the authenticated user returns false at once, with
\* no request to the store and with users and session as they were; a user
\* leaves the store or the view only when the store acknowledges a deleteUser
\* for that id, which is not the id of the authenticated user.
C22_CurrentUserCannotBeDeleted ==
  [][ /\ \A s \in Slots :
           ( /\ handlers[s].kind # "deleteUser" /\ handlers'[s].kind = "deleteUser"
             /\ handlers'[s].arg.userId = currentUser ) =>
             /\ handlers'[s].pc = "done"
             /\ handlers'[s].arg.result = "false"
             /\ UNCHANGED <<dbUsers, users, currentUser>>
      /\ \A u \in UserIds :
           (u \in dbUsers \ dbUsers' \/ u \in UsersShown \ UsersShown') =>
             /\ u # currentUser
             /\ currentUser' = currentUser
             /\ \E s \in Slots :
                  /\ handlers[s].kind = "deleteUser" /\ handlers[s].pc = "delete"
                  /\ handlers[s].arg.userId = u
                  /\ handlers'[s].arg.result = "true"
    ]_vars

\* the authenticated user has deleted another user and has then been refused
\* the deletion of their own account
C22_Witness ==
  \E s \in Slots :
    /\ handlers[s].kind = "deleteUser" /\ handlers[s].pc = "done"
    /\ handlers[s].arg.userId = currentUser
    /\ handlers[s].arg.result = "false"
    /\ currentUser \in dbUsers /\ currentUser \in UsersShown
    /\ dbUsers # UserIds

\* C23: a batch is one request to the store; when the store refuses it the
\* operations in the view and in the store are as they were, and when the
\* store accepts it the view gains its N installments, numbered 1/N to N/N,
\* in front of the operations it had.
C23_BatchAllOrNothing ==
  [][ \A s \in Slots :
        (Creating(s) /\ handlers[s].arg.bulk /\ handlers'[s] # handlers[s]) =>
          LET N == handlers[s].arg.opData.installments
              added == SubSeq(operations', 1, Len(operations') - Len(operations))
          IN  /\ handlers'[s].pc = "done"
              /\ Len(handlers[s].arg.payloads) = N
              /\ IF handlers'[s].err
                 THEN UNCHANGED <<operations, dbOperations>>
                 ELSE /\ Len(operations') = Len(operations) + N
                      /\ SubSeq(operations', N + 1, Len(operations')) = operations
                      /\ {added[i].titleNumber : i \in DOMAIN added}
                           = {<<handlers[s].arg.opData.titleNumber, k, N>> : k \in 1 .. N}
                      /\ IdsOf(added) = DOMAIN dbOperations' \ DOMAIN dbOperations
                      /\ Cardinality(IdsOf(added)) = N
    ]_vars

\* a batch of two has been added whole, and a later batch has been refused,
\* leaving the two
C23_Witness ==
  \E s \in Slots :
    /\ handlers[s].kind = "addOperation" /\ handlers[s].pc = "done"
    /\ handlers[s].arg.bulk /\ handlers[s].err
    /\ operations = handlers[s].ops
    /\ Len(operations) = 2
    /\ operations[1].titleNumber = <<"T", 2, 2>>
    /\ operations[2].titleNumber = <<"T", 1, 2>>

WriteHandlers ==
  {"addOperation", "deleteOperation", "updateStatus", "addReceipt", "deleteReceipt",
   "deleteClient"}

\* C24: when a write handler has ended with one of its store writes refused,
\* the operations and receipts of the view are what they were when the
\* handler was called.
C24_FailedWriteLeavesStateUnchanged ==
  \A s \in Slots :
    (handlers[s].kind \in WriteHandlers /\ handlers[s].pc = "done" /\ handlers[s].err) =>
      /\ operations = handlers[s].ops
      /\ receipts = handlers[s].rcpts

\* C25: when a load has ended with one of its four reads refused, users,
\* clients, operations and receipts are what they were when the load
\* started, which is empty.
C25_FailedReadLeavesStateUntouched ==
  \A s \in Slots :
    (handlers[s].kind = "fetchData" /\ handlers[s].pc = "done" /\ handlers[s].err) =>
      /\ users = <<>> /\ clients = <<>> /\ operations = <<>> /\ receipts = <<>>
      /\ ~isLoading

\* C26: when the store answers the insert of a receipt whose operation was
\* not in the view, the handler ends there: no operation update is issued and
\* no operation changes, and unless the store refused the insert the receipt
\* is in the store and at the head of the view and no error is notified.
\* When the store answers the delete of a receipt whose operation was not in
\* the view, the handler ends there too, with the receipt gone from store and
\* view unless the store refused.
C26_MissingOperationTolerated ==
  [][ \A s \in Slots :
        /\ ( /\ handlers[s].kind = "addReceipt" /\ handlers[s].pc = "insert"
             /\ ~HasId(handlers[s].ops, handlers[s].arg.operationId)
             /\ handlers'[s] # handlers[s] ) =>
             /\ handlers'[s].pc = "done"
             /\ handlers'[s].upd = NoUpdate
             /\ UNCHANGED <<operations, dbOperations>>
             /\ IF handlers'[s].err
                THEN UNCHANGED <<receipts, dbReceipts>>
                ELSE /\ lastNote' = "none"
                     /\ Len(receipts') = Len(receipts) + 1
                     /\ Tail(receipts') = receipts
                     /\ receipts'[1].operationId = handlers[s].arg.operationId
                     /\ receipts'[1].id \in DOMAIN dbReceipts' \ DOMAIN dbReceipts
                     /\ dbReceipts'[receipts'[1].id].operation_id = handlers[s].arg.operationId
        /\ ( /\ handlers[s].kind = "deleteReceipt" /\ handlers[s].pc = "delete"
             /\ ~HasId(handlers[s].ops, handlers[s].arg.receiptToDelete.operationId)
             /\ handlers'[s] # handlers[s] ) =>
             /\ handlers'[s].pc = "done"
             /\ handlers'[s].upd = NoUpdate
             /\ UNCHANGED <<operations, dbOperations>>
             /\ IF handlers'[s].err
                THEN UNCHANGED <<receipts, dbReceipts>>
                ELSE /\ lastNote' = "none"
                     /\ receipts' = SelectSeq(receipts,
                                               LAMBDA r : r.id # handlers[s].arg.receiptId)
                     /\ handlers[s].arg.receiptId \notin DOMAIN dbReceipts'
    ]_vars

\* a receipt added for an operation that the store holds and the view lacks
\* has later been deleted, the operation still missing from the view
C26_Witness ==
  \E s \in Slots :
    /\ Succeeded(s, "deleteReceipt")
    /\ handlers[s].upd = NoUpdate
    /\ ~HasId(handlers[s].ops, handlers[s].arg.receiptToDelete.operationId)
    /\ handlers[s].arg.receiptToDelete.operationId \in DOMAIN dbOperations
    /\ handlers[s].arg.receiptToDelete.valor_principal_pago
         >= dbOperations[handlers[s].arg.receiptToDelete.operationId].nominal_value
    /\ dbOperations[handlers[s].arg.receiptToDelete.operationId].status = "aberto"
    /\ ~HasId(receipts, handlers[s].arg.receiptId)
    /\ handlers[s].arg.receiptId \notin DOMAIN dbReceipts

\* C27: the insert of a `parcelamento` of N >= 2 installments carries N rows
\* in order, the i-th (from 0) with title <base>-<i+1>/<N>, due date the
\* requested one plus i calendar months, the requested issue date and taxa,
\* type `parcelamento` and status `aberto`.
C27_InstallmentDrafts ==
  \A s \in Slots :
    ( /\ Creating(s)
      /\ handlers[s].arg.opData.type = "parcelamento"
      /\ handlers[s].arg.opData.installments >= InstallmentsMin ) =>
      LET opData == handlers[s].arg.opData
          payloads == handlers[s].arg.payloads
          N == opData.installments
      IN  /\ Len(payloads) = N
          /\ \A k \in 1 .. N :
               /\ payloads[k].title_number = <<opData.titleNumber, k, N>>
               /\ payloads[k].due_date = addMonths(opData.dueDate, k - 1)
               /\ payloads[k].issue_date = opData.issueDate
               /\ payloads[k].taxa = opData.taxa
               /\ payloads[k].type = "parcelamento"
               /\ payloads[k].status = "aberto"

\* C28: when the store accepts the insert of a request that is not a
\* `parcelamento` of two or more installments, the view gains exactly one
\* operation, with the requested type, title, nominal value and due date, and
\* the store one row with the same; every row that enters the store enters it
\* with status `aberto`, and is `aberto` in the view.
C28_SingleOperationFallback ==
  [][ /\ \A s \in Slots :
           ( /\ Creating(s)
             /\ ~( /\ handlers[s].arg.opData.type = "parcelamento"
                   /\ handlers[s].arg.opData.installments >= InstallmentsMin )
             /\ handlers'[s] # handlers[s] ) =>
             LET opData == handlers[s].arg.opData
                 new == operations'[1]
             IN  /\ handlers'[s].pc = "done"
                 /\ IF handlers'[s].err
                    THEN UNCHANGED <<operations, dbOperations>>
                    ELSE /\ Len(operations') = Len(operations) + 1
                         /\ Tail(operations') = operations
                         /\ new.type = opData.type
                         /\ new.titleNumber = <<opData.titleNumber>>
                         /\ new.nominalValue = opData.nominalValue
                         /\ new.dueDate = opData.dueDate
                         /\ DOMAIN dbOperations' = DOMAIN dbOperations \cup {new.id}
                         /\ new.id \notin DOMAIN dbOperations
                         /\ new = MapOperation(new.id, dbOperations'[new.id])
      /\ \A id \in DOMAIN dbOperations' \ DOMAIN dbOperations :
           /\ dbOperations'[id].status = "aberto"
           /\ HasId(operations', id)
           /\ FindById(operations', id).status = "aberto"
    ]_vars

\* after a batch of two, a `parcelamento` submitted with a count of 1 has
\* been added as one operation with the full value and the requested title,
\* `aberto` although its due date has passed
C28_Witness ==
  \E s \in Slots :
    /\ Succeeded(s, "addOperation")
    /\ handlers[s].arg.opData.type = "parcelamento"
    /\ handlers[s].arg.opData.installments = 1
    /\ Len(operations) = 3 /\ Len(handlers[s].ops) = 2
    /\ operations[1].titleNumber = <<"T">>
    /\ operations[1].nominalValue = handlers[s].arg.opData.nominalValue
    /\ operations[1].status = "aberto"
    /\ IsOverdue(operations[1].dueDate)
    /\ operations[2].titleNumber = <<"T", 2, 2>>
    /\ operations[2].status = "aberto"

\* C29: no step changes anything but status and due date of an operation,
\* in the store or in the view; a due date changes only when the store
\* acknowledges a date extension, to the date of that extension; and the
\* amounts of an operation of the view are those of its stored row.
C29_StoredAmountsImmutable ==
  [][ /\ \A id \in DOMAIN dbOperations \cap DOMAIN dbOperations' :
           /\ dbOperations'[id] = [dbOperations[id] EXCEPT
                                     !.status = dbOperations'[id].status,
                                     !.due_date = dbOperations'[id].due_date]
           /\ dbOperations'[id].due_date # dbOperations[id].due_date =>
                \E s \in Slots :
                  /\ handlers[s].kind = "addReceipt" /\ handlers[s].pc = "extend"
                  /\ handlers[s].upd.operationId = id
                  /\ handlers[s].upd.dueDate = dbOperations'[id].due_date
      /\ \A i \in DOMAIN operations, j \in DOMAIN operations' :
           operations[i].id = operations'[j].id =>
             /\ operations'[j] = [operations[i] EXCEPT
                                    !.status = operations'[j].status,
                                    !.dueDate = operations'[j].dueDate]
             /\ operations'[j].dueDate # operations[i].dueDate =>
                  \E s \in Slots :
                    /\ handlers[s].kind = "addReceipt" /\ handlers[s].pc = "extend"
                    /\ handlers[s].upd.operationId = operations[i].id
                    /\ handlers[s].upd.dueDate = operations'[j].dueDate
      /\ \A j \in DOMAIN operations' :
           LET op == operations'[j]
           IN  op.id \in DOMAIN dbOperations' =>
                 /\ op.nominalValue = dbOperations'[op.id].nominal_value
                 /\ op.netValue = dbOperations'[op.id].net_value
                 /\ op.taxa = dbOperations'[op.id].taxa
    ]_vars

\* an operation with interest has had its date extended and has then been
\* settled: two receipts, status `pago`, and the net value of its creation
C29_Witness ==
  \E i \in DOMAIN operations :
    LET op == operations[i]
    IN  /\ op.id \in DOMAIN SeedOperations
        /\ op.dueDate # SeedOperations[op.id].due_date
        /\ op.status = "pago"
        /\ Len(ReceiptsOf(receipts, op.id)) = 2
        /\ op.taxa > 0
        /\ op.netValue = NetValue(op.nominalValue, op.taxa)
        /\ op.netValue = dbOperations[op.id].net_value
        /\ op.netValue > PrincipalPaid(receipts, op.id)

\* C30: the active reminders are the operations of the view with status
\* `aberto` or `atrasado`, a due date from today to today + 7 days and an id
\* that has not been dismissed, one reminder each, by ascending due date.
C30_ReminderDerivation ==
  LET reminders == activeReminders(operations, dismissedReminderIds)
      due == {operations[i].id :
                i \in {j \in DOMAIN operations :
                         /\ operations[j].status \in {"aberto", "atrasado"}
                         /\ Ord(operations[j].dueDate) >= Ord(Today)
                         /\ Ord(operations[j].dueDate) <= Ord(Today) + REMINDER_WINDOW_DAYS
                         /\ \A k \in DOMAIN dismissedReminderIds :
                              dismissedReminderIds[k] # operations[j].id}}
  IN  /\ IdsOf(reminders) = due
      /\ Len(reminders) = Cardinality(due)
      /\ \A a \in DOMAIN reminders, b \in DOMAIN reminders :
           a < b => Ord(reminders[a].dueDate) <= Ord(reminders[b].dueDate)

\* C31: dismissing a reminder appends the operation id to the dismissed ids
\* and changes nothing else: no operation, receipt or client, in the view or
\* in the store, and no request to the store; the other reminders stay as they
\* were, and a dismissed operation is in the active reminders of no later state.
C31_DismissalIndependent ==
  /\ [](\A k \in DOMAIN dismissedReminderIds :
          dismissedReminderIds[k]
            \notin IdsOf(activeReminders(operations, dismissedReminderIds)))
  /\ [][dismissedReminderIds' # dismissedReminderIds =>
          \E reminderId \in 1 .. MaxOpId :
            /\ dismissedReminderIds' = Append(dismissedReminderIds, reminderId)
            /\ UNCHANGED <<storeVars, viewVars, handlers, operationToUpdateStatus>>
            /\ activeReminders(operations', dismissedReminderIds')
                 = SelectSeq(activeReminders(operations, dismissedReminderIds),
                             LAMBDA r : r.id # reminderId)
       ]_vars

\* one of two reminders has been dismissed: its operation is still `aberto`
\* and due within the window, and the other reminder is still shown
C31_Witness ==
  /\ Len(dismissedReminderIds) = 1
  /\ Len(activeReminders(operations, dismissedReminderIds)) = 1
  /\ \E i \in DOMAIN operations :
       /\ operations[i].id = dismissedReminderIds[1]
       /\ RemindedIgnoringDismissed(operations[i], dismissedReminderIds)

\* C32: no installment of an expansion is negative: for every total >= 0 in
\* whole cents and every count from 2 to 60, each value of the expansion, the
\* last one with the rounding residual included, is >= 0.
C32_NoNegativeInstallment ==
  \A k \in DOMAIN expandOut : expandOut[k] >= 0

\* C33: with settlement receipts only and a store that accepts every
\* request, once no handleAddReceipt or handleDeleteReceipt call is still
\* running, the principal of the receipts of every `pago` operation of the
\* view reaches its nominalValue, in the view and in the store, whatever the
\* interleaving of the calls.
C33_PaidMeansCoveredInterleaved ==
  (\A s \in Slots : Busy(s) => handlers[s].pc = "done") =>
    \A i \in DOMAIN operations :
      operations[i].status = "pago" =>
        /\ PrincipalPaid(receipts, operations[i].id) >= operations[i].nominalValue
        /\ PrincipalPaid(LoadedReceipts, operations[i].id) >= operations[i].nominalValue

\* C34: every receipt of the view names an operation of the view, in every
\* state, whatever the interleaving of the calls that add and delete
\* receipts, register operations and delete operations and clients.
C34_NoOrphanReceipt ==
  \A i \in DOMAIN receipts : HasId(operations, receipts[i].operationId)

\* C35: once every handler has finished, each operation of the view has the
\* due date that the store holds and the status that the store holds, or
\* `atrasado` where the store holds `aberto`, whatever the order in which the
\* answers to overlapping status updates of one operation arrive.
C35_StoreAndViewAgree ==
  (\A s \in Slots : Busy(s) => handlers[s].pc = "done") =>
    \A i \in DOMAIN operations :
      LET op == operations[i]
      IN  op.id \in DOMAIN dbOperations =>
            /\ op.dueDate = dbOperations[op.id].due_date
            /\ \/ op.status = dbOperations[op.id].status
               \/ op.status = "atrasado" /\ dbOperations[op.id].status = "aberto"

\* C36: handleDeleteReceipt changes no due date, in the view or in the
\* store, in any of its steps, so that once it has finished the operation of
\* the deleted receipt has the due date it had when the deletion was
\* requested, an extended one included; and the status it reopens a `pago`
\* operation with is `atrasado` if that due date is before today, else
\* `aberto`.
C36_DeleteReceiptKeepsDueDate ==
  /\ [](\A s \in Slots :
          ReceiptDeleted(s, FindById(handlers[s].ops,
                                     handlers[s].arg.receiptToDelete.operationId).status) =>
            LET id == handlers[s].arg.receiptToDelete.operationId
            IN  FindById(operations, id).dueDate = FindById(handlers[s].ops, id).dueDate)
  /\ [][\A s \in Slots :
          ( /\ handlers[s].kind = "deleteReceipt"
            /\ handlers'[s].kind = "deleteReceipt"
            /\ handlers'[s] # handlers[s] ) =>
            /\ \A i \in DOMAIN operations :
                 /\ HasId(operations', operations[i].id)
                 /\ FindById(operations', operations[i].id).dueDate = operations[i].dueDate
            /\ \A id \in DOMAIN dbOperations :
                 /\ id \in DOMAIN dbOperations'
                 /\ dbOperations'[id].due_date = dbOperations[id].due_date
            /\ (handlers[s].pc = "delete" /\ handlers'[s].upd # NoUpdate) =>
                 LET op == FindById(operations, handlers'[s].upd.operationId)
                 IN  /\ handlers'[s].upd.dueDate = NoDate
                     /\ handlers'[s].upd.status =
                          IF Ord(op.dueDate) < Ord(Today) THEN "atrasado" ELSE "aberto"
       ]_vars

\* the operation past due on 31 January was extended to 12 February and then
\* settled; both receipts have been deleted, the settlement last: the
\* operation keeps 12 February and has been reopened as `aberto`
C36_Witness ==
  \E s \in Slots :
    /\ Succeeded(s, "deleteReceipt")
    /\ handlers[s].upd # NoUpdate /\ handlers[s].upd.status = "aberto"
    /\ receipts = <<>> /\ dbReceipts = <<>> /\ nextReceiptId > MaxReceiptId
    /\ LET id == handlers[s].arg.receiptToDelete.operationId
           op == FindById(operations, id)
       IN  /\ HasId(operations, id)
           /\ handlers[s].arg.receiptToDelete.valor_principal_pago >= op.nominalValue
           /\ IsOverdue(SeedOperations[id].due_date)
           /\ op.dueDate # SeedOperations[id].due_date
           /\ op.dueDate = dbOperations[id].due_date
           /\ op.status = "aberto"

\* C37: the notification that an operation was deleted is emitted only when
\* the store has deleted it and the view no longer shows it, and the
\* notification that a status was updated only when the store and the view
\* hold the new status.
C37_SuccessOnlyOnSuccess ==
  /\ lastNote = "Operacao excluida com sucesso." =>
       \E s \in Slots :
         /\ Succeeded(s, "deleteOperation")
         /\ ~HasId(operations, handlers[s].arg.operationId)
         /\ handlers[s].arg.operationId \notin DOMAIN dbOperations
  /\ lastNote = "Status da operacao atualizado." =>
       \E s \in Slots :
         /\ Succeeded(s, "updateStatus")
         /\ HasId(operations, handlers[s].upd.operationId)
         /\ FindById(operations, handlers[s].upd.operationId).status = handlers[s].upd.status
         /\ dbOperations[handlers[s].upd.operationId].status = handlers[s].upd.status

====
